---- MODULE Spec2Model ----
\* Model of KeyboardTester (js/KeyboardTester.js, js/KeyboardLayouts.js):
\* the layout builder (Keyboard, KeyboardRow, the catalog factories) and the
\* key-state tracker (onKeyDown, onKeyUp, clear, render) driven by the
\* handlers that KeyboardTester installs.
EXTENDS Integers, Sequences, FiniteSets, TLC

VARIABLES
  keyboard,    \* KeyboardTester.keyboard: the active Keyboard object
  model,       \* $ddlModel.selectedIndex + 1: the catalog entry last selected
  inherited,   \* the `state` property written on objects that #map inherits from Object.prototype
  lastWidth,   \* KeyboardTester.#lastWidth
  transform,   \* keyboard.$dom.style.transform, as the pair of widths it was computed from
  error,       \* the exception the last handler ended with, or "none"
  last,        \* history: the last handler, its argument, the states it found, the keys it rendered
  latest,      \* history: per identifier, the kind of the last key event that carried it since the
               \* keyboard was built or cleared
  currentRow,  \* the KeyboardRow a layout under construction last took from nextRow, else Null
  logged,      \* the messages passed to console.error, in order
  calls,       \* history of the layout under construction: the gap of every nextRow call,
               \* what every addKey and addGap call on the current row moved its cursor by,
               \* the number of placement calls made, and whether the factory has returned
  switching,   \* the change listener's position in createKeyboard, the model it is switching
               \* to, and the keyboard object it last replaced
  heap         \* the objects allocated, where allocation is followed: how many, the
               \* models of each getOptions call, and the keyboard and key objects of
               \* each keyboard a factory returned; or, where the builder's geometry is
               \* held by reference, the position and size objects and who holds them

vars == <<keyboard, model, inherited, lastWidth, transform, error, last, latest, currentRow, logged,
          calls, switching, heap>>

----------------------------------------------------------------------------
\* JavaScript values

\* null / undefined, and a present value; a nullable field holds Null or Some(v)
Null == <<>>
Some(v) == <<v>>

\* JavaScript truthiness of a nullable number: null and 0 are falsy
TruthyNum(v) == v # Null /\ v[1] # 0

\* JavaScript truthiness of a nullable string: null and '' are falsy ('0' is truthy)
TruthyStr(v) == v # Null /\ v[1] # ""

\* KeyState
NeverPressed == "NeverPressed"
Pressed == "Pressed"
Down == "Down"
KeyState == {NeverPressed, Pressed, Down}

\* The property names every plain object ({}) inherits from Object.prototype:
\* Keyboard.#map is such an object, so #map[name] is a truthy non-key object
\* for each of these names even when no key was stored under it.
ProtoNames ==
  { "constructor", "hasOwnProperty", "isPrototypeOf", "propertyIsEnumerable",
    "toLocaleString", "toString", "valueOf", "__proto__",
    "__defineGetter__", "__defineSetter__", "__lookupGetter__", "__lookupSetter__" }

\* deepCopy(obj): a copy of obj, field by field (the fields of an IPosition and
\* of an ISize are not objects themselves)
deepCopy(obj) == [k \in DOMAIN obj |-> obj[k]]

\* applyDefaultsTo(obj, defaults): a copy of obj in which every field of
\* defaults that obj lacks or holds as null takes the default
applyDefaultsTo(obj, defaults) ==
  LET copy == deepCopy(obj) IN
  [k \in (DOMAIN copy) \cup (DOMAIN defaults) |->
     IF k \in DOMAIN defaults /\ (k \notin DOMAIN copy \/ copy[k] = Null)
     THEN defaults[k] ELSE copy[k]]

----------------------------------------------------------------------------
\* KeyShape, Keyboard, KeyboardRow

\* Mutant: a new key starts out Down
KeyShape_StartsDown(char, keyCode) ==
  [ displayChar |-> char,
    shiftDisplayChar |-> " ",
    keyCode |-> keyCode,
    size |-> [width |-> Some(20), height |-> Some(20)],
    position |-> [x |-> 0, y |-> 0],
    zIndex |-> Null,
    state |-> "Down",
    ref |-> Null ]

\* new KeyShape(char, keyCode): the class-field defaults, then the constructor
KeyShape(char, keyCode) ==
  [ displayChar |-> char,
    shiftDisplayChar |-> " ",
    keyCode |-> keyCode,
    size |-> [width |-> Some(20), height |-> Some(20)],
    position |-> [x |-> 0, y |-> 0],
    zIndex |-> Null,
    state |-> NeverPressed,
    ref |-> Null ]

\* document.createElement('div') with its id set: the element of one key.
\* parent is whether the element is a child of the keyboard's root element.
NewRef(keyCode) ==
  [ id |-> <<"key_", keyCode>>, parent |-> FALSE, className |-> Null,
    left |-> Null, top |-> Null, width |-> Null, height |-> Null,
    zIndex |-> Null, innerHTML |-> Null ]

\* {}: an object with no property of its own
EmptyMap == [c \in {} |-> 0]

\* new Keyboard(): field defaults, then nextRowPosition = deepCopy(startPosition).
\* map is #map: a function from the identifiers stored in it to the position
\* in keys of the key object stored there.
NewKeyboard ==
  LET startPosition == [x |-> 10, y |-> 10] IN
  [ keys |-> <<>>,
    nextRowPosition |-> deepCopy(startPosition),
    startPosition |-> startPosition,
    keySize |-> [width |-> Some(20), height |-> Some(20)],
    map |-> EmptyMap ]

\* Mutant: an identifier the index holds already keeps the key it has
MapSet_KeepsFirst(map, id, idx) == IF id \in DOMAIN map THEN map ELSE (id :> idx) @@ map

\* this.#map[id] = key, key being keys[idx]
MapSet(map, id, idx) == (id :> idx) @@ map

\* this.#map[id]: the key stored under id, else what the plain object
\* inherits under that name, else undefined
MapGet(map, id) ==
  IF id \in DOMAIN map THEN [kind |-> "key", idx |-> map[id]]
  ELSE IF id \in ProtoNames THEN [kind |-> "inherited", name |-> id]
  ELSE [kind |-> "undefined"]

\* Keyboard.addKey(key)
KeyboardAddKey(kb, key) ==
  LET placed == [key EXCEPT !.ref = Some(NewRef(key.keyCode))]
      keys == Append(kb.keys, placed)
  IN [kb EXCEPT !.keys = keys, !.map = MapSet(kb.map, key.keyCode, Len(keys))]

\* new KeyboardRow(keyboard, position)
KeyboardRow(position) ==
  LET pos == deepCopy(position) IN
  [position |-> pos, nextPosition |-> deepCopy(pos)]

\* Mutant: nextRow moves the vertical cursor by the gap only
nextRow_GapOnly(kb, gap) ==
  LET y1 == kb.nextRowPosition.y + gap
      row == KeyboardRow([kb.nextRowPosition EXCEPT !.y = y1])
  IN [ keyboard |-> [kb EXCEPT !.nextRowPosition = [x |-> kb.startPosition.x, y |-> y1]],
       row |-> row ]

\* Keyboard.nextRow(gap): the keyboard afterwards and the row returned
nextRow(kb, gap) ==
  LET y1 == kb.nextRowPosition.y + gap
      row == KeyboardRow([kb.nextRowPosition EXCEPT !.y = y1])
  IN [ keyboard |-> [kb EXCEPT !.nextRowPosition =
                         [x |-> kb.startPosition.x, y |-> y1 + kb.keySize.height[1]]],
       row |-> row ]

\* Mutant: addKey keeps a width of 0 as given (width >= 0 in place of width > 0)
RowAddKey_KeepsZero(kb, row, displayChar, keyCode, width, shiftChar) ==
  LET k0 == KeyShape(displayChar, keyCode)
      k1 == IF TruthyStr(shiftChar) THEN [k0 EXCEPT !.shiftDisplayChar = shiftChar[1]] ELSE k0
      k2 == [k1 EXCEPT !.position = deepCopy(row.nextPosition)]
      k3 == [k2 EXCEPT !.size.width = IF width # Null /\ width[1] >= 0 THEN width ELSE Null]
      k4 == [k3 EXCEPT !.size.height = Null]
      size == applyDefaultsTo(k4.size, kb.keySize)
  IN [ keyboard |-> KeyboardAddKey(kb, k4),
       row |-> [row EXCEPT !.nextPosition.x = @ + size.width[1]] ]

\* Mutant: addKey places the key at the start of the row, not at its cursor
RowAddKey_AtRowStart(kb, row, displayChar, keyCode, width, shiftChar) ==
  LET k0 == KeyShape(displayChar, keyCode)
      k1 == IF TruthyStr(shiftChar) THEN [k0 EXCEPT !.shiftDisplayChar = shiftChar[1]] ELSE k0
      k2 == [k1 EXCEPT !.position = deepCopy(row.position)]
      k3 == [k2 EXCEPT !.size.width = IF width # Null /\ width[1] > 0 THEN width ELSE Null]
      k4 == [k3 EXCEPT !.size.height = Null]
      size == applyDefaultsTo(k4.size, kb.keySize)
  IN [ keyboard |-> KeyboardAddKey(kb, k4),
       row |-> [row EXCEPT !.nextPosition.x = @ + size.width[1]] ]

\* Mutant: addKey leaves the new key's height as KeyShape initialised it
RowAddKey_KeepsHeight(kb, row, displayChar, keyCode, width, shiftChar) ==
  LET k0 == KeyShape(displayChar, keyCode)
      k1 == IF TruthyStr(shiftChar) THEN [k0 EXCEPT !.shiftDisplayChar = shiftChar[1]] ELSE k0
      k2 == [k1 EXCEPT !.position = deepCopy(row.nextPosition)]
      k3 == [k2 EXCEPT !.size.width = IF width # Null /\ width[1] > 0 THEN width ELSE Null]
      size == applyDefaultsTo(k3.size, kb.keySize)
  IN [ keyboard |-> KeyboardAddKey(kb, k3),
       row |-> [row EXCEPT !.nextPosition.x = @ + size.width[1]] ]

\* Mutant: addKey takes every shift character but null as given
\* (shiftChar !== null in place of the truthiness test)
RowAddKey_EmptyShift(kb, row, displayChar, keyCode, width, shiftChar) ==
  LET k0 == KeyShape(displayChar, keyCode)
      k1 == IF shiftChar # Null THEN [k0 EXCEPT !.shiftDisplayChar = shiftChar[1]] ELSE k0
      k2 == [k1 EXCEPT !.position = deepCopy(row.nextPosition)]
      k3 == [k2 EXCEPT !.size.width = IF width # Null /\ width[1] > 0 THEN width ELSE Null]
      k4 == [k3 EXCEPT !.size.height = Null]
      size == applyDefaultsTo(k4.size, kb.keySize)
  IN [ keyboard |-> KeyboardAddKey(kb, k4),
       row |-> [row EXCEPT !.nextPosition.x = @ + size.width[1]] ]

\* KeyboardRow.addKey(displayChar, keyCode, width, shiftChar): the keyboard and
\* the row afterwards; the key returned is the last of keyboard.keys
RowAddKey(kb, row, displayChar, keyCode, width, shiftChar) ==
  LET k0 == KeyShape(displayChar, keyCode)
      k1 == IF TruthyStr(shiftChar) THEN [k0 EXCEPT !.shiftDisplayChar = shiftChar[1]] ELSE k0
      k2 == [k1 EXCEPT !.position = deepCopy(row.nextPosition)]
      k3 == [k2 EXCEPT !.size.width = IF width # Null /\ width[1] > 0 THEN width ELSE Null]
      k4 == [k3 EXCEPT !.size.height = Null]
      size == applyDefaultsTo(k4.size, kb.keySize)
  IN [ keyboard |-> KeyboardAddKey(kb, k4),
       row |-> [row EXCEPT !.nextPosition.x = @ + size.width[1]] ]

\* Mutant: addGap moves the cursor left
RowAddGap_Backwards(row, width) == [row EXCEPT !.nextPosition.x = @ - width]

\* Mutant: addGap moves the cursor down as well as right
RowAddGap_Slants(row, width) ==
  [row EXCEPT !.nextPosition.x = @ + width, !.nextPosition.y = @ + width]

\* KeyboardRow.addGap(width)
RowAddGap(row, width) == [row EXCEPT !.nextPosition.x = @ + width]

\* Mutant: renderKey writes the width it rendered back into the key
renderKey_StoresWidth(key) ==
  LET r0 == key.ref[1]
      r1 == [r0 EXCEPT !.parent = TRUE,
                       !.className = Some(<<"key", key.state>>),
                       !.left = Some(key.position.x),
                       !.top = Some(key.position.y)]
      r2 == IF TruthyNum(key.size.width) THEN [r1 EXCEPT !.width = key.size.width] ELSE r1
  IN [key EXCEPT !.ref = Some(r2),
                 !.size.width = IF TruthyNum(key.size.width) THEN @ ELSE Some(20)]

\* Mutant: renderKey takes a key for short when its height is below 10
renderKey_BelowTen(key) ==
  LET r0 == key.ref[1]
      r1 == [r0 EXCEPT !.parent = TRUE,
                       !.className = Some(<<"key", key.state>>),
                       !.left = Some(key.position.x),
                       !.top = Some(key.position.y)]
      r2 == IF TruthyNum(key.size.width) THEN [r1 EXCEPT !.width = key.size.width] ELSE r1
      r3 == IF TruthyStr(key.zIndex) THEN [r2 EXCEPT !.zIndex = key.zIndex] ELSE r2
      r4 == IF TruthyNum(key.size.height)
            THEN [r3 EXCEPT !.height = key.size.height,
                            !.zIndex = IF ~TruthyStr(key.zIndex) THEN Some("10") ELSE @]
            ELSE r3
      r5 == [r4 EXCEPT !.innerHTML =
               IF key.size.height # Null /\ key.size.height[1] < 10
               THEN Some(<<key.displayChar>>)
               ELSE Some(<<(IF key.shiftDisplayChar # "" THEN key.shiftDisplayChar ELSE ""),
                           "<br>", key.displayChar>>)]
  IN [key EXCEPT !.ref = Some(r5)]

\* Mutant: renderKey puts every key that has a height at stack order 10,
\* whether or not the key has a zIndex of its own
renderKey_TallOnTop(key) ==
  LET r0 == key.ref[1]
      r1 == [r0 EXCEPT !.parent = TRUE,
                       !.className = Some(<<"key", key.state>>),
                       !.left = Some(key.position.x),
                       !.top = Some(key.position.y)]
      r2 == IF TruthyNum(key.size.width) THEN [r1 EXCEPT !.width = key.size.width] ELSE r1
      r3 == IF TruthyStr(key.zIndex) THEN [r2 EXCEPT !.zIndex = key.zIndex] ELSE r2
      r4 == IF TruthyNum(key.size.height)
            THEN [r3 EXCEPT !.height = key.size.height, !.zIndex = Some("10")]
            ELSE r3
      r5 == [r4 EXCEPT !.innerHTML =
               IF key.size.height # Null /\ key.size.height[1] <= 10
               THEN Some(<<key.displayChar>>)
               ELSE Some(<<(IF key.shiftDisplayChar # "" THEN key.shiftDisplayChar ELSE ""),
                           "<br>", key.displayChar>>)]
  IN [key EXCEPT !.ref = Some(r5)]

\* Mutant: renderKey moves the element right by position.x from where it is
renderKey_Accumulates(key) ==
  LET r0 == key.ref[1]
      r1 == [r0 EXCEPT !.parent = TRUE,
                       !.className = Some(<<"key", key.state>>),
                       !.left = Some((IF r0.left # Null THEN r0.left[1] ELSE 0) + key.position.x),
                       !.top = Some(key.position.y)]
      r2 == IF TruthyNum(key.size.width) THEN [r1 EXCEPT !.width = key.size.width] ELSE r1
      r3 == IF TruthyStr(key.zIndex) THEN [r2 EXCEPT !.zIndex = key.zIndex] ELSE r2
      r4 == IF TruthyNum(key.size.height)
            THEN [r3 EXCEPT !.height = key.size.height,
                            !.zIndex = IF ~TruthyStr(key.zIndex) THEN Some("10") ELSE @]
            ELSE r3
      r5 == [r4 EXCEPT !.innerHTML =
               IF key.size.height # Null /\ key.size.height[1] <= 10
               THEN Some(<<key.displayChar>>)
               ELSE Some(<<(IF key.shiftDisplayChar # "" THEN key.shiftDisplayChar ELSE ""),
                           "<br>", key.displayChar>>)]
  IN [key EXCEPT !.ref = Some(r5)]

\* Keyboard.renderKey(key), key being one of the keyboard's keys
renderKey(key) ==
  LET r0 == key.ref[1]
      r1 == [r0 EXCEPT !.parent = TRUE,
                       !.className = Some(<<"key", key.state>>),
                       !.left = Some(key.position.x),
                       !.top = Some(key.position.y)]
      r2 == IF TruthyNum(key.size.width) THEN [r1 EXCEPT !.width = key.size.width] ELSE r1
      r3 == IF TruthyStr(key.zIndex) THEN [r2 EXCEPT !.zIndex = key.zIndex] ELSE r2
      r4 == IF TruthyNum(key.size.height)
            THEN [r3 EXCEPT !.height = key.size.height,
                            !.zIndex = IF ~TruthyStr(key.zIndex) THEN Some("10") ELSE @]
            ELSE r3
      r5 == [r4 EXCEPT !.innerHTML =
               IF key.size.height # Null /\ key.size.height[1] <= 10
               THEN Some(<<key.displayChar>>)
               ELSE Some(<<(IF key.shiftDisplayChar # "" THEN key.shiftDisplayChar ELSE ""),
                           "<br>", key.displayChar>>)]
  IN [key EXCEPT !.ref = Some(r5)]

\* The outcome of a Keyboard method: the keyboard and the inherited objects
\* afterwards, the exception it ended with, and the keys it rendered, in order
Outcome(kb, inh, err, rendered) ==
  [keyboard |-> kb, inherited |-> inh, error |-> err, rendered |-> rendered]

\* Mutant: the handlers find the key by the keyCode it carries now, and go to
\* the index only when no key carries the identifier
SetKeyState_ByKeyCode(kb, inh, keyCode, state) ==
  LET carrying == {i \in DOMAIN kb.keys : kb.keys[i].keyCode = keyCode}
      key == MapGet(kb.map, keyCode)
  IN
  CASE carrying # {} ->
         LET idx == CHOOSE i \in carrying : \A j \in carrying : j <= i IN
         Outcome([kb EXCEPT !.keys[idx] = renderKey([@ EXCEPT !.state = state])],
                 inh, "none", <<idx>>)
    [] key.kind = "key" ->
         Outcome([kb EXCEPT !.keys[key.idx] = renderKey([@ EXCEPT !.state = state])],
                 inh, "none", <<key.idx>>)
    [] key.kind = "inherited" ->
         Outcome(kb, [inh EXCEPT ![key.name] = Some(state)], "TypeError", <<>>)
    [] OTHER -> Outcome(kb, inh, "none", <<>>)

\* The body shared by onKeyDown and onKeyUp: look the identifier up in #map;
\* if the value is truthy assign its state and render it.  An inherited
\* object takes the assignment, and renderKey then fails on its missing $ref.
SetKeyState(kb, inh, keyCode, state) ==
  LET key == MapGet(kb.map, keyCode) IN
  CASE key.kind = "key" ->
         Outcome([kb EXCEPT !.keys[key.idx] = renderKey([@ EXCEPT !.state = state])],
                 inh, "none", <<key.idx>>)
    [] key.kind = "inherited" ->
         Outcome(kb, [inh EXCEPT ![key.name] = Some(state)], "TypeError", <<>>)
    [] OTHER -> Outcome(kb, inh, "none", <<>>)

\* Whether #map[keyCode] is a key of kb in the given state
FoundIn(kb, keyCode, state) ==
  LET key == MapGet(kb.map, keyCode) IN
  key.kind = "key" /\ kb.keys[key.idx].state = state

\* Mutant: a key-down for a key that is Down already is dropped, unrendered
onKeyDown_SkipWhenDown(kb, inh, keyCode) ==
  IF FoundIn(kb, keyCode, Down) THEN Outcome(kb, inh, "none", <<>>)
  ELSE SetKeyState(kb, inh, keyCode, Down)

\* Mutant: a key-down for a key that is Pressed leaves it Pressed
onKeyDown_IgnoresPressed(kb, inh, keyCode) ==
  IF FoundIn(kb, keyCode, Pressed) THEN SetKeyState(kb, inh, keyCode, Pressed)
  ELSE SetKeyState(kb, inh, keyCode, Down)

\* Mutant: a key-down first takes every key that is Down to Pressed
onKeyDown_SingleDown(kb, inh, keyCode) ==
  LET released == [kb EXCEPT !.keys = [i \in DOMAIN kb.keys |->
                     IF kb.keys[i].state = Down
                     THEN renderKey([kb.keys[i] EXCEPT !.state = Pressed])
                     ELSE kb.keys[i]]]
  IN IF MapGet(kb.map, keyCode).kind = "key"
     THEN SetKeyState(released, inh, keyCode, Down)
     ELSE SetKeyState(kb, inh, keyCode, Down)

\* Keyboard.onKeyDown(keyCode)
onKeyDown(kb, inh, keyCode) == SetKeyState(kb, inh, keyCode, Down)

\* Mutant: a key-up marks the key Pressed only if it is Down
onKeyUp_OnlyFromDown(kb, inh, keyCode) ==
  IF FoundIn(kb, keyCode, NeverPressed) THEN SetKeyState(kb, inh, keyCode, NeverPressed)
  ELSE SetKeyState(kb, inh, keyCode, Pressed)

\* Mutant: a key-up puts the key back to NeverPressed
onKeyUp_Unpress(kb, inh, keyCode) == SetKeyState(kb, inh, keyCode, NeverPressed)

\* Mutant: a key-up assigns Down, as the key-down handler does
onKeyUp_AssignsDown(kb, inh, keyCode) == SetKeyState(kb, inh, keyCode, Down)

\* Mutant: a key-up takes every key that is Down to Pressed
onKeyUp_ReleasesAll(kb, inh, keyCode) ==
  LET res == SetKeyState(kb, inh, keyCode, Pressed) IN
  IF MapGet(kb.map, keyCode).kind = "key"
  THEN [res EXCEPT !.keyboard.keys = [i \in DOMAIN kb.keys |->
          IF res.keyboard.keys[i].state = Down
          THEN renderKey([res.keyboard.keys[i] EXCEPT !.state = Pressed])
          ELSE res.keyboard.keys[i]]]
  ELSE res

\* Keyboard.onKeyUp(keyCode)
onKeyUp(kb, inh, keyCode) == SetKeyState(kb, inh, keyCode, Pressed)

\* Mutant: clear() leaves the keys that are Down as they are
clear_SkipsDown(kb) ==
  [kb EXCEPT !.keys = [i \in DOMAIN kb.keys |->
                         IF kb.keys[i].state = Down THEN kb.keys[i]
                         ELSE renderKey([kb.keys[i] EXCEPT !.state = NeverPressed])]]

\* Mutant: clear resets the states and leaves the elements as they are
clear_Unrendered(kb) ==
  [kb EXCEPT !.keys = [i \in DOMAIN kb.keys |-> [kb.keys[i] EXCEPT !.state = NeverPressed]]]

\* Keyboard.clear()
clear(kb) ==
  [kb EXCEPT !.keys = [i \in DOMAIN kb.keys |->
                         renderKey([kb.keys[i] EXCEPT !.state = NeverPressed])]]

\* Keyboard.render(): empty the root element, then render every key
render(kb) ==
  [kb EXCEPT !.keys = [i \in DOMAIN kb.keys |->
                         renderKey([kb.keys[i] EXCEPT !.ref[1].parent = FALSE])]]

\* Keyboard.remap(): the loop from key i on, map being #map so far (the test
\* on map always holds; it has map evaluated before the loop goes on)
RECURSIVE RemapFrom(_, _, _)
RemapFrom(keys, i, map) ==
  IF i > Len(keys) \/ Cardinality(DOMAIN map) >= i THEN map
  ELSE RemapFrom(keys, i + 1, MapSet(map, keys[i].keyCode, i))

\* Mutant: remap() adds the keys to the index without emptying it first
remap_KeepsOld(kb) == [kb EXCEPT !.map = RemapFrom(kb.keys, 1, EmptyMap) @@ kb.map]

\* Keyboard.remap()
remap(kb) == [kb EXCEPT !.map = RemapFrom(kb.keys, 1, EmptyMap)]

\* Keyboard.getKey(keyCode): the value found in #map.  The test against null
\* never holds for an identifier that is absent (the lookup gives undefined),
\* so nothing is logged and the value found is returned as it is.
getKey(kb, keyCode) == MapGet(kb.map, keyCode)

----------------------------------------------------------------------------
\* KeyboardDefinitions: the catalog

\* The placement calls of KeyboardDefinitions.getWindowsLogitechKeyboard, in source order.
\* A key variable of the source (let enterKey = row.addKey(..)) is named by the
\* position of that key in keyboard.keys; a label character outside ASCII,
\* a backquote and an apostrophe are written U+XXXX.
LogitechScript ==
  << [op |-> "nextRow", gap |-> 0],
     [op |-> "addKey", displayChar |-> "Esc", keyCode |-> "Escape", width |-> Some(-1), shiftChar |-> Null],
     [op |-> "addGap", width |-> 15],
     [op |-> "addKey", displayChar |-> "F1", keyCode |-> "F1", width |-> Some(-1), shiftChar |-> Null],
     [op |-> "addKey", displayChar |-> "F2", keyCode |-> "F2", width |-> Some(-1), shiftChar |-> Null],
     [op |-> "addKey", displayChar |-> "F3", keyCode |-> "F3", width |-> Some(-1), shiftChar |-> Null],
     [op |-> "addKey", displayChar |-> "F4", keyCode |-> "F4", width |-> Some(-1), shiftChar |-> Null],
     [op |-> "addGap", width |-> 15],
     [op |-> "addKey", displayChar |-> "F5", keyCode |-> "F5", width |-> Some(-1), shiftChar |-> Null],
     [op |-> "addKey", displayChar |-> "F6", keyCode |-> "F6", width |-> Some(-1), shiftChar |-> Null],
     [op |-> "addKey", displayChar |-> "F7", keyCode |-> "F7", width |-> Some(-1), shiftChar |-> Null],
     [op |-> "addKey", displayChar |-> "F8", keyCode |-> "F8", width |-> Some(-1), shiftChar |-> Null],
     [op |-> "addGap", width |-> 15],
     [op |-> "addKey", displayChar |-> "F9", keyCode |-> "F9", width |-> Some(-1), shiftChar |-> Null],
     [op |-> "addKey", displayChar |-> "F10", keyCode |-> "F10", width |-> Some(-1), shiftChar |-> Null],
     [op |-> "addKey", displayChar |-> "F11", keyCode |-> "F11", width |-> Some(-1), shiftChar |-> Null],
     [op |-> "addKey", displayChar |-> "F12", keyCode |-> "F12", width |-> Some(-1), shiftChar |-> Null],
     [op |-> "addGap", width |-> 10],
     [op |-> "addKey", displayChar |-> "prsc", keyCode |-> "f13", width |-> Some(-1), shiftChar |-> Null],
     [op |-> "addKey", displayChar |-> "sclk", keyCode |-> "ScrollLock", width |-> Some(-1), shiftChar |-> Null],
     [op |-> "addKey", displayChar |-> "pause", keyCode |-> "Pause", width |-> Some(-1), shiftChar |-> Null],
     [op |-> "nextRow", gap |-> 5],
     [op |-> "addKey", displayChar |-> "U+0060", keyCode |-> "Backquote", width |-> Null, shiftChar |-> Some("~")],
     [op |-> "addKey", displayChar |-> "1", keyCode |-> "Digit1", width |-> Null, shiftChar |-> Some("!")],
     [op |-> "addKey", displayChar |-> "2", keyCode |-> "Digit2", width |-> Null, shiftChar |-> Some("@")],
     [op |-> "addKey", displayChar |-> "3", keyCode |-> "Digit3", width |-> Null, shiftChar |-> Some("#")],
     [op |-> "addKey", displayChar |-> "4", keyCode |-> "Digit4", width |-> Null, shiftChar |-> Some("$")],
     [op |-> "addKey", displayChar |-> "5", keyCode |-> "Digit5", width |-> Null, shiftChar |-> Some("%")],
     [op |-> "addKey", displayChar |-> "6", keyCode |-> "Digit6", width |-> Null, shiftChar |-> Some("^")],
     [op |-> "addKey", displayChar |-> "7", keyCode |-> "Digit7", width |-> Null, shiftChar |-> Some("&")],
     [op |-> "addKey", displayChar |-> "8", keyCode |-> "Digit8", width |-> Null, shiftChar |-> Some("*")],
     [op |-> "addKey", displayChar |-> "9", keyCode |-> "Digit9", width |-> Null, shiftChar |-> Some("(")],
     [op |-> "addKey", displayChar |-> "0", keyCode |-> "Digit0", width |-> Null, shiftChar |-> Some(")")],
     [op |-> "addKey", displayChar |-> "-", keyCode |-> "Minus", width |-> Null, shiftChar |-> Some("_")],
     [op |-> "addKey", displayChar |-> "=", keyCode |-> "Equal", width |-> Null, shiftChar |-> Some("+")],
     [op |-> "addKey", displayChar |-> "Backspace", keyCode |-> "Backspace", width |-> Some(45), shiftChar |-> Null],
     [op |-> "addGap", width |-> 10],
     [op |-> "addKey", displayChar |-> "ins", keyCode |-> "Insert", width |-> Some(-1), shiftChar |-> Null],
     [op |-> "addKey", displayChar |-> "home", keyCode |-> "Home", width |-> Some(-1), shiftChar |-> Null],
     [op |-> "addKey", displayChar |-> "pgup", keyCode |-> "PageUp", width |-> Some(-1), shiftChar |-> Null],
     [op |-> "addGap", width |-> 10],
     [op |-> "addKey", displayChar |-> "numlock", keyCode |-> "NumLock", width |-> Some(-1), shiftChar |-> Null],
     [op |-> "addKey", displayChar |-> "/", keyCode |-> "NumpadDivide", width |-> Some(-1), shiftChar |-> Null],
     [op |-> "addKey", displayChar |-> "*", keyCode |-> "NumpadMultiply", width |-> Some(-1), shiftChar |-> Null],
     [op |-> "addKey", displayChar |-> "-", keyCode |-> "NumpadSubtract", width |-> Some(-1), shiftChar |-> Null],
     [op |-> "nextRow", gap |-> 0],
     [op |-> "addKey", displayChar |-> "Tab", keyCode |-> "Tab", width |-> Some(30), shiftChar |-> Null],
     [op |-> "addKey", displayChar |-> "q", keyCode |-> "KeyQ", width |-> Some(-1), shiftChar |-> Null],
     [op |-> "addKey", displayChar |-> "w", keyCode |-> "KeyW", width |-> Some(-1), shiftChar |-> Null],
     [op |-> "addKey", displayChar |-> "e", keyCode |-> "KeyE", width |-> Some(-1), shiftChar |-> Null],
     [op |-> "addKey", displayChar |-> "r", keyCode |-> "KeyR", width |-> Some(-1), shiftChar |-> Null],
     [op |-> "addKey", displayChar |-> "t", keyCode |-> "KeyT", width |-> Some(-1), shiftChar |-> Null],
     [op |-> "addKey", displayChar |-> "y", keyCode |-> "KeyY", width |-> Some(-1), shiftChar |-> Null],
     [op |-> "addKey", displayChar |-> "u", keyCode |-> "KeyU", width |-> Some(-1), shiftChar |-> Null],
     [op |-> "addKey", displayChar |-> "i", keyCode |-> "KeyI", width |-> Some(-1), shiftChar |-> Null],
     [op |-> "addKey", displayChar |-> "o", keyCode |-> "KeyO", width |-> Some(-1), shiftChar |-> Null],
     [op |-> "addKey", displayChar |-> "p", keyCode |-> "KeyP", width |-> Some(-1), shiftChar |-> Null],
     [op |-> "addKey", displayChar |-> "[", keyCode |-> "BracketLeft", width |-> Some(-1), shiftChar |-> Null],
     [op |-> "addKey", displayChar |-> "]", keyCode |-> "BracketRight", width |-> Some(-1), shiftChar |-> Null],
     [op |-> "addKey", displayChar |-> "\\", keyCode |-> "Backslash", width |-> Some(35), shiftChar |-> Null],
     [op |-> "addGap", width |-> 10],
     [op |-> "addKey", displayChar |-> "del", keyCode |-> "Delete", width |-> Some(-1), shiftChar |-> Null],
     [op |-> "addKey", displayChar |-> "end", keyCode |-> "End", width |-> Some(-1), shiftChar |-> Null],
     [op |-> "addKey", displayChar |-> "pgdn", keyCode |-> "PageDown", width |-> Some(-1), shiftChar |-> Null],
     [op |-> "addGap", width |-> 10],
     [op |-> "addKey", displayChar |-> "7", keyCode |-> "Numpad7", width |-> Some(-1), shiftChar |-> Null],
     [op |-> "addKey", displayChar |-> "8", keyCode |-> "Numpad8", width |-> Some(-1), shiftChar |-> Null],
     [op |-> "addKey", displayChar |-> "9", keyCode |-> "Numpad9", width |-> Some(-1), shiftChar |-> Null],
     [op |-> "addKey", displayChar |-> "+", keyCode |-> "NumpadAdd", width |-> Some(-1), shiftChar |-> Null],
     [op |-> "setHeightTimes", key |-> 58, factor |-> 2],
     [op |-> "nextRow", gap |-> 0],
     [op |-> "addKey", displayChar |-> "Caps", keyCode |-> "CapsLock", width |-> Some(35), shiftChar |-> Null],
     [op |-> "addKey", displayChar |-> "a", keyCode |-> "KeyA", width |-> Some(-1), shiftChar |-> Null],
     [op |-> "addKey", displayChar |-> "s", keyCode |-> "KeyS", width |-> Some(-1), shiftChar |-> Null],
     [op |-> "addKey", displayChar |-> "d", keyCode |-> "KeyD", width |-> Some(-1), shiftChar |-> Null],
     [op |-> "addKey", displayChar |-> "f", keyCode |-> "KeyF", width |-> Some(-1), shiftChar |-> Null],
     [op |-> "addKey", displayChar |-> "g", keyCode |-> "KeyG", width |-> Some(-1), shiftChar |-> Null],
     [op |-> "addKey", displayChar |-> "h", keyCode |-> "KeyH", width |-> Some(-1), shiftChar |-> Null],
     [op |-> "addKey", displayChar |-> "j", keyCode |-> "KeyJ", width |-> Some(-1), shiftChar |-> Null],
     [op |-> "addKey", displayChar |-> "k", keyCode |-> "KeyK", width |-> Some(-1), shiftChar |-> Null],
     [op |-> "addKey", displayChar |-> "l", keyCode |-> "KeyL", width |-> Some(-1), shiftChar |-> Null],
     [op |-> "addKey", displayChar |-> ";", keyCode |-> "Semicolon", width |-> Null, shiftChar |-> Some(":")],
     [op |-> "addKey", displayChar |-> "U+0027", keyCode |-> "Quote", width |-> Null, shiftChar |-> Some("\"")],
     [op |-> "addKey", displayChar |-> "Enter", keyCode |-> "Enter", width |-> Some(50), shiftChar |-> Null],
     [op |-> "addGap", width |-> 80],
     [op |-> "addKey", displayChar |-> "4", keyCode |-> "Numpad4", width |-> Some(-1), shiftChar |-> Null],
     [op |-> "addKey", displayChar |-> "5", keyCode |-> "Numpad5", width |-> Some(-1), shiftChar |-> Null],
     [op |-> "addKey", displayChar |-> "6", keyCode |-> "Numpad6", width |-> Some(-1), shiftChar |-> Null],
     [op |-> "nextRow", gap |-> 0],
     [op |-> "addKey", displayChar |-> "Shift", keyCode |-> "ShiftLeft", width |-> Some(45), shiftChar |-> Null],
     [op |-> "addKey", displayChar |-> "z", keyCode |-> "KeyZ", width |-> Some(-1), shiftChar |-> Null],
     [op |-> "addKey", displayChar |-> "x", keyCode |-> "KeyX", width |-> Some(-1), shiftChar |-> Null],
     [op |-> "addKey", displayChar |-> "c", keyCode |-> "KeyC", width |-> Some(-1), shiftChar |-> Null],
     [op |-> "addKey", displayChar |-> "v", keyCode |-> "KeyV", width |-> Some(-1), shiftChar |-> Null],
     [op |-> "addKey", displayChar |-> "b", keyCode |-> "KeyB", width |-> Some(-1), shiftChar |-> Null],
     [op |-> "addKey", displayChar |-> "n", keyCode |-> "KeyN", width |-> Some(-1), shiftChar |-> Null],
     [op |-> "addKey", displayChar |-> "m", keyCode |-> "KeyM", width |-> Some(-1), shiftChar |-> Null],
     [op |-> "addKey", displayChar |-> ",", keyCode |-> "Comma", width |-> Null, shiftChar |-> Some("<")],
     [op |-> "addKey", displayChar |-> ".", keyCode |-> "Period", width |-> Null, shiftChar |-> Some(">")],
     [op |-> "addKey", displayChar |-> "/", keyCode |-> "Slash", width |-> Null, shiftChar |-> Some("?")],
     [op |-> "addKey", displayChar |-> "Shift", keyCode |-> "ShiftRight", width |-> Some(60), shiftChar |-> Null],
     [op |-> "addGap", width |-> 10],
     [op |-> "addGap", width |-> 20],
     [op |-> "addKey", displayChar |-> "U+2191", keyCode |-> "ArrowUp", width |-> Some(-1), shiftChar |-> Null],
     [op |-> "addGap", width |-> 20],
     [op |-> "addGap", width |-> 10],
     [op |-> "addKey", displayChar |-> "1", keyCode |-> "Numpad1", width |-> Some(-1), shiftChar |-> Null],
     [op |-> "addKey", displayChar |-> "2", keyCode |-> "Numpad2", width |-> Some(-1), shiftChar |-> Null],
     [op |-> "addKey", displayChar |-> "3", keyCode |-> "Numpad3", width |-> Some(-1), shiftChar |-> Null],
     [op |-> "addKey", displayChar |-> "Enter", keyCode |-> "NumpadEnter", width |-> Some(-1), shiftChar |-> Null],
     [op |-> "setHeightTimes", key |-> 91, factor |-> 2],
     [op |-> "nextRow", gap |-> 0],
     [op |-> "addKey", displayChar |-> "Ctrl", keyCode |-> "ControlLeft", width |-> Some(30), shiftChar |-> Null],
     [op |-> "addKey", displayChar |-> "Win", keyCode |-> "MetaLeft", width |-> Some(25), shiftChar |-> Null],
     [op |-> "addKey", displayChar |-> "Alt", keyCode |-> "AltLeft", width |-> Some(25), shiftChar |-> Null],
     [op |-> "addKey", displayChar |-> "space", keyCode |-> "Space", width |-> Some(120), shiftChar |-> Null],
     [op |-> "addKey", displayChar |-> "Alt", keyCode |-> "AltRight", width |-> Some(30), shiftChar |-> Null],
     [op |-> "addKey", displayChar |-> "Menu", keyCode |-> "ContextMenu", width |-> Some(35), shiftChar |-> Null],
     [op |-> "addKey", displayChar |-> "Ctrl", keyCode |-> "ControlRight", width |-> Some(40), shiftChar |-> Null],
     [op |-> "addGap", width |-> 10],
     [op |-> "addKey", displayChar |-> "U+2190", keyCode |-> "ArrowLeft", width |-> Some(-1), shiftChar |-> Null],
     [op |-> "addKey", displayChar |-> "U+2193", keyCode |-> "ArrowDown", width |-> Some(-1), shiftChar |-> Null],
     [op |-> "addKey", displayChar |-> "U+2192", keyCode |-> "ArrowRight", width |-> Some(-1), shiftChar |-> Null],
     [op |-> "addGap", width |-> 10],
     [op |-> "addKey", displayChar |-> "0", keyCode |-> "Numpad0", width |-> Some(40), shiftChar |-> Null],
     [op |-> "addKey", displayChar |-> ".", keyCode |-> "NumpadDecimal", width |-> Some(-1), shiftChar |-> Null] >>

\* The placement calls of KeyboardDefinitions.getWindowsHPDesktopKeyboard, in source order.
\* A key variable of the source (let enterKey = row.addKey(..)) is named by the
\* position of that key in keyboard.keys; a label character outside ASCII,
\* a backquote and an apostrophe are written U+XXXX.
HPDesktopScript ==
  << [op |-> "nextRow", gap |-> 0],
     [op |-> "addKey", displayChar |-> "Esc", keyCode |-> "Escape", width |-> Some(-1), shiftChar |-> Null],
     [op |-> "addGap", width |-> 19],
     [op |-> "addKey", displayChar |-> "F1", keyCode |-> "F1", width |-> Some(-1), shiftChar |-> Null],
     [op |-> "addKey", displayChar |-> "F2", keyCode |-> "F2", width |-> Some(-1), shiftChar |-> Null],
     [op |-> "addKey", displayChar |-> "F3", keyCode |-> "F3", width |-> Some(-1), shiftChar |-> Null],
     [op |-> "addKey", displayChar |-> "F4", keyCode |-> "F4", width |-> Some(-1), shiftChar |-> Null],
     [op |-> "addGap", width |-> 13],
     [op |-> "addKey", displayChar |-> "F5", keyCode |-> "F5", width |-> Some(-1), shiftChar |-> Null],
     [op |-> "addKey", displayChar |-> "F6", keyCode |-> "F6", width |-> Some(-1), shiftChar |-> Null],
     [op |-> "addKey", displayChar |-> "F7", keyCode |-> "F7", width |-> Some(-1), shiftChar |-> Null],
     [op |-> "addKey", displayChar |-> "F8", keyCode |-> "F8", width |-> Some(-1), shiftChar |-> Null],
     [op |-> "addGap", width |-> 13],
     [op |-> "addKey", displayChar |-> "F9", keyCode |-> "F9", width |-> Some(-1), shiftChar |-> Null],
     [op |-> "addKey", displayChar |-> "F10", keyCode |-> "F10", width |-> Some(-1), shiftChar |-> Null],
     [op |-> "addKey", displayChar |-> "F11", keyCode |-> "F11", width |-> Some(-1), shiftChar |-> Null],
     [op |-> "addKey", displayChar |-> "F12", keyCode |-> "F12", width |-> Some(-1), shiftChar |-> Null],
     [op |-> "addGap", width |-> 10],
     [op |-> "addKey", displayChar |-> "prsc", keyCode |-> "f13", width |-> Some(-1), shiftChar |-> Null],
     [op |-> "addKey", displayChar |-> "sclk", keyCode |-> "ScrollLock", width |-> Some(-1), shiftChar |-> Null],
     [op |-> "addKey", displayChar |-> "pause", keyCode |-> "Pause", width |-> Some(-1), shiftChar |-> Null],
     [op |-> "nextRow", gap |-> 5],
     [op |-> "addKey", displayChar |-> "U+0060", keyCode |-> "Backquote", width |-> Null, shiftChar |-> Some("~")],
     [op |-> "addKey", displayChar |-> "1", keyCode |-> "Digit1", width |-> Null, shiftChar |-> Some("!")],
     [op |-> "addKey", displayChar |-> "2", keyCode |-> "Digit2", width |-> Null, shiftChar |-> Some("@")],
     [op |-> "addKey", displayChar |-> "3", keyCode |-> "Digit3", width |-> Null, shiftChar |-> Some("#")],
     [op |-> "addKey", displayChar |-> "4", keyCode |-> "Digit4", width |-> Null, shiftChar |-> Some("$")],
     [op |-> "addKey", displayChar |-> "5", keyCode |-> "Digit5", width |-> Null, shiftChar |-> Some("%")],
     [op |-> "addKey", displayChar |-> "6", keyCode |-> "Digit6", width |-> Null, shiftChar |-> Some("^")],
     [op |-> "addKey", displayChar |-> "7", keyCode |-> "Digit7", width |-> Null, shiftChar |-> Some("&")],
     [op |-> "addKey", displayChar |-> "8", keyCode |-> "Digit8", width |-> Null, shiftChar |-> Some("*")],
     [op |-> "addKey", displayChar |-> "9", keyCode |-> "Digit9", width |-> Null, shiftChar |-> Some("(")],
     [op |-> "addKey", displayChar |-> "0", keyCode |-> "Digit0", width |-> Null, shiftChar |-> Some(")")],
     [op |-> "addKey", displayChar |-> "-", keyCode |-> "Minus", width |-> Null, shiftChar |-> Some("_")],
     [op |-> "addKey", displayChar |-> "=", keyCode |-> "Equal", width |-> Null, shiftChar |-> Some("+")],
     [op |-> "addKey", displayChar |-> "Backspace", keyCode |-> "Backspace", width |-> Some(45), shiftChar |-> Null],
     [op |-> "addGap", width |-> 10],
     [op |-> "addKey", displayChar |-> "ins", keyCode |-> "Insert", width |-> Some(-1), shiftChar |-> Null],
     [op |-> "addKey", displayChar |-> "home", keyCode |-> "Home", width |-> Some(-1), shiftChar |-> Null],
     [op |-> "addKey", displayChar |-> "pgup", keyCode |-> "PageUp", width |-> Some(-1), shiftChar |-> Null],
     [op |-> "addGap", width |-> 10],
     [op |-> "addKey", displayChar |-> "numlock", keyCode |-> "NumLock", width |-> Some(-1), shiftChar |-> Null],
     [op |-> "addKey", displayChar |-> "/", keyCode |-> "NumpadDivide", width |-> Some(-1), shiftChar |-> Null],
     [op |-> "addKey", displayChar |-> "*", keyCode |-> "NumpadMultiply", width |-> Some(-1), shiftChar |-> Null],
     [op |-> "addKey", displayChar |-> "-", keyCode |-> "NumpadSubtract", width |-> Some(-1), shiftChar |-> Null],
     [op |-> "nextRow", gap |-> 0],
     [op |-> "addKey", displayChar |-> "Tab", keyCode |-> "Tab", width |-> Some(30), shiftChar |-> Null],
     [op |-> "addKey", displayChar |-> "q", keyCode |-> "KeyQ", width |-> Some(-1), shiftChar |-> Null],
     [op |-> "addKey", displayChar |-> "w", keyCode |-> "KeyW", width |-> Some(-1), shiftChar |-> Null],
     [op |-> "addKey", displayChar |-> "e", keyCode |-> "KeyE", width |-> Some(-1), shiftChar |-> Null],
     [op |-> "addKey", displayChar |-> "r", keyCode |-> "KeyR", width |-> Some(-1), shiftChar |-> Null],
     [op |-> "addKey", displayChar |-> "t", keyCode |-> "KeyT", width |-> Some(-1), shiftChar |-> Null],
     [op |-> "addKey", displayChar |-> "y", keyCode |-> "KeyY", width |-> Some(-1), shiftChar |-> Null],
     [op |-> "addKey", displayChar |-> "u", keyCode |-> "KeyU", width |-> Some(-1), shiftChar |-> Null],
     [op |-> "addKey", displayChar |-> "i", keyCode |-> "KeyI", width |-> Some(-1), shiftChar |-> Null],
     [op |-> "addKey", displayChar |-> "o", keyCode |-> "KeyO", width |-> Some(-1), shiftChar |-> Null],
     [op |-> "addKey", displayChar |-> "p", keyCode |-> "KeyP", width |-> Some(-1), shiftChar |-> Null],
     [op |-> "addKey", displayChar |-> "[", keyCode |-> "BracketLeft", width |-> Some(-1), shiftChar |-> Null],
     [op |-> "addKey", displayChar |-> "]", keyCode |-> "BracketRight", width |-> Some(-1), shiftChar |-> Null],
     [op |-> "addKey", displayChar |-> "\\", keyCode |-> "Backslash", width |-> Some(35), shiftChar |-> Null],
     [op |-> "addGap", width |-> 10],
     [op |-> "addKey", displayChar |-> "del", keyCode |-> "Delete", width |-> Some(-1), shiftChar |-> Null],
     [op |-> "addKey", displayChar |-> "end", keyCode |-> "End", width |-> Some(-1), shiftChar |-> Null],
     [op |-> "addKey", displayChar |-> "pgdn", keyCode |-> "PageDown", width |-> Some(-1), shiftChar |-> Null],
     [op |-> "addGap", width |-> 10],
     [op |-> "addKey", displayChar |-> "7", keyCode |-> "Numpad7", width |-> Some(-1), shiftChar |-> Null],
     [op |-> "addKey", displayChar |-> "8", keyCode |-> "Numpad8", width |-> Some(-1), shiftChar |-> Null],
     [op |-> "addKey", displayChar |-> "9", keyCode |-> "Numpad9", width |-> Some(-1), shiftChar |-> Null],
     [op |-> "addKey", displayChar |-> "+", keyCode |-> "NumpadAdd", width |-> Some(-1), shiftChar |-> Null],
     [op |-> "setHeightTimes", key |-> 58, factor |-> 2],
     [op |-> "nextRow", gap |-> 0],
     [op |-> "addKey", displayChar |-> "Caps", keyCode |-> "CapsLock", width |-> Some(35), shiftChar |-> Null],
     [op |-> "addKey", displayChar |-> "a", keyCode |-> "KeyA", width |-> Some(-1), shiftChar |-> Null],
     [op |-> "addKey", displayChar |-> "s", keyCode |-> "KeyS", width |-> Some(-1), shiftChar |-> Null],
     [op |-> "addKey", displayChar |-> "d", keyCode |-> "KeyD", width |-> Some(-1), shiftChar |-> Null],
     [op |-> "addKey", displayChar |-> "f", keyCode |-> "KeyF", width |-> Some(-1), shiftChar |-> Null],
     [op |-> "addKey", displayChar |-> "g", keyCode |-> "KeyG", width |-> Some(-1), shiftChar |-> Null],
     [op |-> "addKey", displayChar |-> "h", keyCode |-> "KeyH", width |-> Some(-1), shiftChar |-> Null],
     [op |-> "addKey", displayChar |-> "j", keyCode |-> "KeyJ", width |-> Some(-1), shiftChar |-> Null],
     [op |-> "addKey", displayChar |-> "k", keyCode |-> "KeyK", width |-> Some(-1), shiftChar |-> Null],
     [op |-> "addKey", displayChar |-> "l", keyCode |-> "KeyL", width |-> Some(-1), shiftChar |-> Null],
     [op |-> "addKey", displayChar |-> ";", keyCode |-> "Semicolon", width |-> Null, shiftChar |-> Some(":")],
     [op |-> "addKey", displayChar |-> "U+0027", keyCode |-> "Quote", width |-> Null, shiftChar |-> Some("\"")],
     [op |-> "addKey", displayChar |-> "Enter", keyCode |-> "Enter", width |-> Some(50), shiftChar |-> Null],
     [op |-> "addGap", width |-> 10],
     [op |-> "addGap", width |-> 60],
     [op |-> "addGap", width |-> 10],
     [op |-> "addKey", displayChar |-> "4", keyCode |-> "Numpad4", width |-> Some(-1), shiftChar |-> Null],
     [op |-> "addKey", displayChar |-> "5", keyCode |-> "Numpad5", width |-> Some(-1), shiftChar |-> Null],
     [op |-> "addKey", displayChar |-> "6", keyCode |-> "Numpad6", width |-> Some(-1), shiftChar |-> Null],
     [op |-> "nextRow", gap |-> 0],
     [op |-> "addKey", displayChar |-> "Shift", keyCode |-> "ShiftLeft", width |-> Some(45), shiftChar |-> Null],
     [op |-> "addKey", displayChar |-> "z", keyCode |-> "KeyZ", width |-> Some(-1), shiftChar |-> Null],
     [op |-> "addKey", displayChar |-> "x", keyCode |-> "KeyX", width |-> Some(-1), shiftChar |-> Null],
     [op |-> "addKey", displayChar |-> "c", keyCode |-> "KeyC", width |-> Some(-1), shiftChar |-> Null],
     [op |-> "addKey", displayChar |-> "v", keyCode |-> "KeyV", width |-> Some(-1), shiftChar |-> Null],
     [op |-> "addKey", displayChar |-> "b", keyCode |-> "KeyB", width |-> Some(-1), shiftChar |-> Null],
     [op |-> "addKey", displayChar |-> "n", keyCode |-> "KeyN", width |-> Some(-1), shiftChar |-> Null],
     [op |-> "addKey", displayChar |-> "m", keyCode |-> "KeyM", width |-> Some(-1), shiftChar |-> Null],
     [op |-> "addKey", displayChar |-> ",", keyCode |-> "Comma", width |-> Null, shiftChar |-> Some("<")],
     [op |-> "addKey", displayChar |-> ".", keyCode |-> "Period", width |-> Null, shiftChar |-> Some(">")],
     [op |-> "addKey", displayChar |-> "/", keyCode |-> "Slash", width |-> Null, shiftChar |-> Some("?")],
     [op |-> "addKey", displayChar |-> "Shift", keyCode |-> "ShiftRight", width |-> Some(60), shiftChar |-> Null],
     [op |-> "addGap", width |-> 10],
     [op |-> "addGap", width |-> 20],
     [op |-> "addKey", displayChar |-> "U+2191", keyCode |-> "ArrowUp", width |-> Some(-1), shiftChar |-> Null],
     [op |-> "addGap", width |-> 20],
     [op |-> "addGap", width |-> 10],
     [op |-> "addKey", displayChar |-> "1", keyCode |-> "Numpad1", width |-> Some(-1), shiftChar |-> Null],
     [op |-> "addKey", displayChar |-> "2", keyCode |-> "Numpad2", width |-> Some(-1), shiftChar |-> Null],
     [op |-> "addKey", displayChar |-> "3", keyCode |-> "Numpad3", width |-> Some(-1), shiftChar |-> Null],
     [op |-> "addKey", displayChar |-> "Enter", keyCode |-> "NumpadEnter", width |-> Some(-1), shiftChar |-> Null],
     [op |-> "setHeightTimes", key |-> 91, factor |-> 2],
     [op |-> "nextRow", gap |-> 0],
     [op |-> "addKey", displayChar |-> "Ctrl", keyCode |-> "ControlLeft", width |-> Some(30), shiftChar |-> Null],
     [op |-> "addKey", displayChar |-> "Win", keyCode |-> "MetaLeft", width |-> Some(25), shiftChar |-> Null],
     [op |-> "addKey", displayChar |-> "Alt", keyCode |-> "AltLeft", width |-> Some(25), shiftChar |-> Null],
     [op |-> "addKey", displayChar |-> "space", keyCode |-> "Space", width |-> Some(115), shiftChar |-> Null],
     [op |-> "addKey", displayChar |-> "Alt", keyCode |-> "AltRight", width |-> Some(25), shiftChar |-> Null],
     [op |-> "addKey", displayChar |-> "Win", keyCode |-> "MetaRight", width |-> Some(25), shiftChar |-> Null],
     [op |-> "addKey", displayChar |-> "Menu", keyCode |-> "ContextMenu", width |-> Some(25), shiftChar |-> Null],
     [op |-> "addKey", displayChar |-> "Ctrl", keyCode |-> "ControlRight", width |-> Some(35), shiftChar |-> Null],
     [op |-> "addGap", width |-> 10],
     [op |-> "addKey", displayChar |-> "U+2190", keyCode |-> "ArrowLeft", width |-> Some(-1), shiftChar |-> Null],
     [op |-> "addKey", displayChar |-> "U+2193", keyCode |-> "ArrowDown", width |-> Some(-1), shiftChar |-> Null],
     [op |-> "addKey", displayChar |-> "U+2192", keyCode |-> "ArrowRight", width |-> Some(-1), shiftChar |-> Null],
     [op |-> "addGap", width |-> 10],
     [op |-> "addKey", displayChar |-> "0", keyCode |-> "Numpad0", width |-> Some(40), shiftChar |-> Null],
     [op |-> "addKey", displayChar |-> ".", keyCode |-> "NumpadDecimal", width |-> Some(-1), shiftChar |-> Null] >>

\* The placement calls of KeyboardDefinitions.getWindowsGenericKeyboard, in source order.
\* A key variable of the source (let enterKey = row.addKey(..)) is named by the
\* position of that key in keyboard.keys; a label character outside ASCII,
\* a backquote and an apostrophe are written U+XXXX.
GenericScript ==
  << [op |-> "nextRow", gap |-> 0],
     [op |-> "addKey", displayChar |-> "Esc", keyCode |-> "Escape", width |-> Some(-1), shiftChar |-> Null],
     [op |-> "addGap", width |-> 19],
     [op |-> "addKey", displayChar |-> "F1", keyCode |-> "F1", width |-> Some(-1), shiftChar |-> Null],
     [op |-> "addKey", displayChar |-> "F2", keyCode |-> "F2", width |-> Some(-1), shiftChar |-> Null],
     [op |-> "addKey", displayChar |-> "F3", keyCode |-> "F3", width |-> Some(-1), shiftChar |-> Null],
     [op |-> "addKey", displayChar |-> "F4", keyCode |-> "F4", width |-> Some(-1), shiftChar |-> Null],
     [op |-> "addGap", width |-> 13],
     [op |-> "addKey", displayChar |-> "F5", keyCode |-> "F5", width |-> Some(-1), shiftChar |-> Null],
     [op |-> "addKey", displayChar |-> "F6", keyCode |-> "F6", width |-> Some(-1), shiftChar |-> Null],
     [op |-> "addKey", displayChar |-> "F7", keyCode |-> "F7", width |-> Some(-1), shiftChar |-> Null],
     [op |-> "addKey", displayChar |-> "F8", keyCode |-> "F8", width |-> Some(-1), shiftChar |-> Null],
     [op |-> "addGap", width |-> 13],
     [op |-> "addKey", displayChar |-> "F9", keyCode |-> "F9", width |-> Some(-1), shiftChar |-> Null],
     [op |-> "addKey", displayChar |-> "F10", keyCode |-> "F10", width |-> Some(-1), shiftChar |-> Null],
     [op |-> "addKey", displayChar |-> "F11", keyCode |-> "F11", width |-> Some(-1), shiftChar |-> Null],
     [op |-> "addKey", displayChar |-> "F12", keyCode |-> "F12", width |-> Some(-1), shiftChar |-> Null],
     [op |-> "addGap", width |-> 10],
     [op |-> "addKey", displayChar |-> "Power", keyCode |-> "Power", width |-> Some(-1), shiftChar |-> Null],
     [op |-> "addKey", displayChar |-> "Sleep", keyCode |-> "Sleep", width |-> Some(-1), shiftChar |-> Null],
     [op |-> "addKey", displayChar |-> "Wake", keyCode |-> "Wake", width |-> Some(-1), shiftChar |-> Null],
     [op |-> "nextRow", gap |-> 5],
     [op |-> "addKey", displayChar |-> "U+0060", keyCode |-> "Backquote", width |-> Null, shiftChar |-> Some("~")],
     [op |-> "addKey", displayChar |-> "1", keyCode |-> "Digit1", width |-> Null, shiftChar |-> Some("!")],
     [op |-> "addKey", displayChar |-> "2", keyCode |-> "Digit2", width |-> Null, shiftChar |-> Some("@")],
     [op |-> "addKey", displayChar |-> "3", keyCode |-> "Digit3", width |-> Null, shiftChar |-> Some("#")],
     [op |-> "addKey", displayChar |-> "4", keyCode |-> "Digit4", width |-> Null, shiftChar |-> Some("$")],
     [op |-> "addKey", displayChar |-> "5", keyCode |-> "Digit5", width |-> Null, shiftChar |-> Some("%")],
     [op |-> "addKey", displayChar |-> "6", keyCode |-> "Digit6", width |-> Null, shiftChar |-> Some("^")],
     [op |-> "addKey", displayChar |-> "7", keyCode |-> "Digit7", width |-> Null, shiftChar |-> Some("&")],
     [op |-> "addKey", displayChar |-> "8", keyCode |-> "Digit8", width |-> Null, shiftChar |-> Some("*")],
     [op |-> "addKey", displayChar |-> "9", keyCode |-> "Digit9", width |-> Null, shiftChar |-> Some("(")],
     [op |-> "addKey", displayChar |-> "0", keyCode |-> "Digit0", width |-> Null, shiftChar |-> Some(")")],
     [op |-> "addKey", displayChar |-> "-", keyCode |-> "Minus", width |-> Null, shiftChar |-> Some("_")],
     [op |-> "addKey", displayChar |-> "=", keyCode |-> "Equal", width |-> Null, shiftChar |-> Some("+")],
     [op |-> "addKey", displayChar |-> "Backspace", keyCode |-> "Backspace", width |-> Some(45), shiftChar |-> Null],
     [op |-> "addGap", width |-> 10],
     [op |-> "addKey", displayChar |-> "prsc", keyCode |-> "f13", width |-> Some(-1), shiftChar |-> Null],
     [op |-> "addKey", displayChar |-> "sclk", keyCode |-> "ScrollLock", width |-> Some(-1), shiftChar |-> Null],
     [op |-> "addKey", displayChar |-> "pause", keyCode |-> "Pause", width |-> Some(-1), shiftChar |-> Null],
     [op |-> "addGap", width |-> 10],
     [op |-> "addKey", displayChar |-> "numlock", keyCode |-> "NumLock", width |-> Some(-1), shiftChar |-> Null],
     [op |-> "addKey", displayChar |-> "/", keyCode |-> "NumpadDivide", width |-> Some(-1), shiftChar |-> Null],
     [op |-> "addKey", displayChar |-> "*", keyCode |-> "NumpadMultiply", width |-> Some(-1), shiftChar |-> Null],
     [op |-> "addKey", displayChar |-> "-", keyCode |-> "NumpadSubtract", width |-> Some(-1), shiftChar |-> Null],
     [op |-> "nextRow", gap |-> 0],
     [op |-> "addKey", displayChar |-> "Tab", keyCode |-> "Tab", width |-> Some(30), shiftChar |-> Null],
     [op |-> "addKey", displayChar |-> "q", keyCode |-> "KeyQ", width |-> Some(-1), shiftChar |-> Null],
     [op |-> "addKey", displayChar |-> "w", keyCode |-> "KeyW", width |-> Some(-1), shiftChar |-> Null],
     [op |-> "addKey", displayChar |-> "e", keyCode |-> "KeyE", width |-> Some(-1), shiftChar |-> Null],
     [op |-> "addKey", displayChar |-> "r", keyCode |-> "KeyR", width |-> Some(-1), shiftChar |-> Null],
     [op |-> "addKey", displayChar |-> "t", keyCode |-> "KeyT", width |-> Some(-1), shiftChar |-> Null],
     [op |-> "addKey", displayChar |-> "y", keyCode |-> "KeyY", width |-> Some(-1), shiftChar |-> Null],
     [op |-> "addKey", displayChar |-> "u", keyCode |-> "KeyU", width |-> Some(-1), shiftChar |-> Null],
     [op |-> "addKey", displayChar |-> "i", keyCode |-> "KeyI", width |-> Some(-1), shiftChar |-> Null],
     [op |-> "addKey", displayChar |-> "o", keyCode |-> "KeyO", width |-> Some(-1), shiftChar |-> Null],
     [op |-> "addKey", displayChar |-> "p", keyCode |-> "KeyP", width |-> Some(-1), shiftChar |-> Null],
     [op |-> "addKey", displayChar |-> "[", keyCode |-> "BracketLeft", width |-> Some(-1), shiftChar |-> Null],
     [op |-> "addKey", displayChar |-> "]", keyCode |-> "BracketRight", width |-> Some(-1), shiftChar |-> Null],
     [op |-> "addKey", displayChar |-> "enter", keyCode |-> "Enter", width |-> Some(35), shiftChar |-> Null],
     [op |-> "setHeightTimes", key |-> 51, factor |-> 2],
     [op |-> "setZIndex", key |-> 51, zIndex |-> "0"],
     [op |-> "addGap", width |-> 10],
     [op |-> "addKey", displayChar |-> "ins", keyCode |-> "Insert", width |-> Some(-1), shiftChar |-> Null],
     [op |-> "addKey", displayChar |-> "home", keyCode |-> "Home", width |-> Some(-1), shiftChar |-> Null],
     [op |-> "addKey", displayChar |-> "pgup", keyCode |-> "PageUp", width |-> Some(-1), shiftChar |-> Null],
     [op |-> "addGap", width |-> 10],
     [op |-> "addKey", displayChar |-> "7", keyCode |-> "Numpad7", width |-> Some(-1), shiftChar |-> Null],
     [op |-> "addKey", displayChar |-> "8", keyCode |-> "Numpad8", width |-> Some(-1), shiftChar |-> Null],
     [op |-> "addKey", displayChar |-> "9", keyCode |-> "Numpad9", width |-> Some(-1), shiftChar |-> Null],
     [op |-> "addKey", displayChar |-> "+", keyCode |-> "NumpadAdd", width |-> Some(-1), shiftChar |-> Null],
     [op |-> "setHeightTimes", key |-> 58, factor |-> 2],
     [op |-> "nextRow", gap |-> 0],
     [op |-> "addKey", displayChar |-> "Caps", keyCode |-> "CapsLock", width |-> Some(35), shiftChar |-> Null],
     [op |-> "addKey", displayChar |-> "a", keyCode |-> "KeyA", width |-> Some(-1), shiftChar |-> Null],
     [op |-> "addKey", displayChar |-> "s", keyCode |-> "KeyS", width |-> Some(-1), shiftChar |-> Null],
     [op |-> "addKey", displayChar |-> "d", keyCode |-> "KeyD", width |-> Some(-1), shiftChar |-> Null],
     [op |-> "addKey", displayChar |-> "f", keyCode |-> "KeyF", width |-> Some(-1), shiftChar |-> Null],
     [op |-> "addKey", displayChar |-> "g", keyCode |-> "KeyG", width |-> Some(-1), shiftChar |-> Null],
     [op |-> "addKey", displayChar |-> "h", keyCode |-> "KeyH", width |-> Some(-1), shiftChar |-> Null],
     [op |-> "addKey", displayChar |-> "j", keyCode |-> "KeyJ", width |-> Some(-1), shiftChar |-> Null],
     [op |-> "addKey", displayChar |-> "k", keyCode |-> "KeyK", width |-> Some(-1), shiftChar |-> Null],
     [op |-> "addKey", displayChar |-> "l", keyCode |-> "KeyL", width |-> Some(-1), shiftChar |-> Null],
     [op |-> "addKey", displayChar |-> ";", keyCode |-> "Semicolon", width |-> Null, shiftChar |-> Some(":")],
     [op |-> "addKey", displayChar |-> "U+0027", keyCode |-> "Quote", width |-> Null, shiftChar |-> Some("\"")],
     [op |-> "addKey", displayChar |-> "\\", keyCode |-> "Backslash", width |-> Some(-1), shiftChar |-> Null],
     [op |-> "addGap", width |-> 30],
     [op |-> "addGap", width |-> 10],
     [op |-> "addKey", displayChar |-> "del", keyCode |-> "Delete", width |-> Some(-1), shiftChar |-> Null],
     [op |-> "addKey", displayChar |-> "end", keyCode |-> "End", width |-> Some(-1), shiftChar |-> Null],
     [op |-> "addKey", displayChar |-> "pgdn", keyCode |-> "PageDown", width |-> Some(-1), shiftChar |-> Null],
     [op |-> "addGap", width |-> 10],
     [op |-> "addKey", displayChar |-> "4", keyCode |-> "Numpad4", width |-> Some(-1), shiftChar |-> Null],
     [op |-> "addKey", displayChar |-> "5", keyCode |-> "Numpad5", width |-> Some(-1), shiftChar |-> Null],
     [op |-> "addKey", displayChar |-> "6", keyCode |-> "Numpad6", width |-> Some(-1), shiftChar |-> Null],
     [op |-> "nextRow", gap |-> 0],
     [op |-> "addKey", displayChar |-> "Shift", keyCode |-> "ShiftLeft", width |-> Some(45), shiftChar |-> Null],
     [op |-> "addKey", displayChar |-> "z", keyCode |-> "KeyZ", width |-> Some(-1), shiftChar |-> Null],
     [op |-> "addKey", displayChar |-> "x", keyCode |-> "KeyX", width |-> Some(-1), shiftChar |-> Null],
     [op |-> "addKey", displayChar |-> "c", keyCode |-> "KeyC", width |-> Some(-1), shiftChar |-> Null],
     [op |-> "addKey", displayChar |-> "v", keyCode |-> "KeyV", width |-> Some(-1), shiftChar |-> Null],
     [op |-> "addKey", displayChar |-> "b", keyCode |-> "KeyB", width |-> Some(-1), shiftChar |-> Null],
     [op |-> "addKey", displayChar |-> "n", keyCode |-> "KeyN", width |-> Some(-1), shiftChar |-> Null],
     [op |-> "addKey", displayChar |-> "m", keyCode |-> "KeyM", width |-> Some(-1), shiftChar |-> Null],
     [op |-> "addKey", displayChar |-> ",", keyCode |-> "Comma", width |-> Null, shiftChar |-> Some("<")],
     [op |-> "addKey", displayChar |-> ".", keyCode |-> "Period", width |-> Null, shiftChar |-> Some(">")],
     [op |-> "addKey", displayChar |-> "/", keyCode |-> "Slash", width |-> Null, shiftChar |-> Some("?")],
     [op |-> "addKey", displayChar |-> "Shift", keyCode |-> "ShiftRight", width |-> Some(60), shiftChar |-> Null],
     [op |-> "addGap", width |-> 10],
     [op |-> "addGap", width |-> 20],
     [op |-> "addKey", displayChar |-> "U+2191", keyCode |-> "ArrowUp", width |-> Some(-1), shiftChar |-> Null],
     [op |-> "addGap", width |-> 20],
     [op |-> "addGap", width |-> 10],
     [op |-> "addKey", displayChar |-> "1", keyCode |-> "Numpad1", width |-> Some(-1), shiftChar |-> Null],
     [op |-> "addKey", displayChar |-> "2", keyCode |-> "Numpad2", width |-> Some(-1), shiftChar |-> Null],
     [op |-> "addKey", displayChar |-> "3", keyCode |-> "Numpad3", width |-> Some(-1), shiftChar |-> Null],
     [op |-> "addKey", displayChar |-> "Enter", keyCode |-> "NumpadEnter", width |-> Some(-1), shiftChar |-> Null],
     [op |-> "setHeightTimes", key |-> 94, factor |-> 2],
     [op |-> "nextRow", gap |-> 0],
     [op |-> "addKey", displayChar |-> "Ctrl", keyCode |-> "ControlLeft", width |-> Some(30), shiftChar |-> Null],
     [op |-> "addKey", displayChar |-> "Win", keyCode |-> "MetaLeft", width |-> Some(25), shiftChar |-> Null],
     [op |-> "addKey", displayChar |-> "Alt", keyCode |-> "AltLeft", width |-> Some(25), shiftChar |-> Null],
     [op |-> "addKey", displayChar |-> "space", keyCode |-> "Space", width |-> Some(115), shiftChar |-> Null],
     [op |-> "addKey", displayChar |-> "Alt", keyCode |-> "AltRight", width |-> Some(25), shiftChar |-> Null],
     [op |-> "addKey", displayChar |-> "Win", keyCode |-> "MetaRight", width |-> Some(25), shiftChar |-> Null],
     [op |-> "addKey", displayChar |-> "Menu", keyCode |-> "ContextMenu", width |-> Some(25), shiftChar |-> Null],
     [op |-> "addKey", displayChar |-> "Ctrl", keyCode |-> "ControlRight", width |-> Some(35), shiftChar |-> Null],
     [op |-> "addGap", width |-> 10],
     [op |-> "addKey", displayChar |-> "U+2190", keyCode |-> "ArrowLeft", width |-> Some(-1), shiftChar |-> Null],
     [op |-> "addKey", displayChar |-> "U+2193", keyCode |-> "ArrowDown", width |-> Some(-1), shiftChar |-> Null],
     [op |-> "addKey", displayChar |-> "U+2192", keyCode |-> "ArrowRight", width |-> Some(-1), shiftChar |-> Null],
     [op |-> "addGap", width |-> 10],
     [op |-> "addKey", displayChar |-> "0", keyCode |-> "Numpad0", width |-> Some(40), shiftChar |-> Null],
     [op |-> "addKey", displayChar |-> ".", keyCode |-> "NumpadDecimal", width |-> Some(-1), shiftChar |-> Null] >>

\* The placement calls of KeyboardDefinitions.getMacBookProKeyboard, in source order.
\* A key variable of the source (let enterKey = row.addKey(..)) is named by the
\* position of that key in keyboard.keys; a label character outside ASCII,
\* a backquote and an apostrophe are written U+XXXX.
MacBookProScript ==
  << [op |-> "nextRow", gap |-> 0],
     [op |-> "addKey", displayChar |-> "Esc", keyCode |-> "Escape", width |-> Some(30), shiftChar |-> Null],
     [op |-> "addKey", displayChar |-> "F1", keyCode |-> "F1", width |-> Some(-1), shiftChar |-> Null],
     [op |-> "addKey", displayChar |-> "F2", keyCode |-> "F2", width |-> Some(-1), shiftChar |-> Null],
     [op |-> "addKey", displayChar |-> "F3", keyCode |-> "F3", width |-> Some(-1), shiftChar |-> Null],
     [op |-> "addKey", displayChar |-> "F4", keyCode |-> "F4", width |-> Some(-1), shiftChar |-> Null],
     [op |-> "addKey", displayChar |-> "F5", keyCode |-> "F5", width |-> Some(-1), shiftChar |-> Null],
     [op |-> "addKey", displayChar |-> "F6", keyCode |-> "F6", width |-> Some(-1), shiftChar |-> Null],
     [op |-> "addKey", displayChar |-> "F7", keyCode |-> "F7", width |-> Some(-1), shiftChar |-> Null],
     [op |-> "addKey", displayChar |-> "F8", keyCode |-> "F8", width |-> Some(-1), shiftChar |-> Null],
     [op |-> "addKey", displayChar |-> "F9", keyCode |-> "F9", width |-> Some(-1), shiftChar |-> Null],
     [op |-> "addKey", displayChar |-> "F10", keyCode |-> "F10", width |-> Some(-1), shiftChar |-> Null],
     [op |-> "addKey", displayChar |-> "F11", keyCode |-> "F11", width |-> Some(-1), shiftChar |-> Null],
     [op |-> "addKey", displayChar |-> "F12", keyCode |-> "F12", width |-> Some(-1), shiftChar |-> Null],
     [op |-> "addKey", displayChar |-> "F13", keyCode |-> "f13", width |-> Some(25), shiftChar |-> Null],
     [op |-> "nextRow", gap |-> 5],
     [op |-> "addKey", displayChar |-> "U+0060", keyCode |-> "Backquote", width |-> Null, shiftChar |-> Some("~")],
     [op |-> "addKey", displayChar |-> "1", keyCode |-> "Digit1", width |-> Null, shiftChar |-> Some("!")],
     [op |-> "addKey", displayChar |-> "2", keyCode |-> "Digit2", width |-> Null, shiftChar |-> Some("@")],
     [op |-> "addKey", displayChar |-> "3", keyCode |-> "Digit3", width |-> Null, shiftChar |-> Some("#")],
     [op |-> "addKey", displayChar |-> "4", keyCode |-> "Digit4", width |-> Null, shiftChar |-> Some("$")],
     [op |-> "addKey", displayChar |-> "5", keyCode |-> "Digit5", width |-> Null, shiftChar |-> Some("%")],
     [op |-> "addKey", displayChar |-> "6", keyCode |-> "Digit6", width |-> Null, shiftChar |-> Some("^")],
     [op |-> "addKey", displayChar |-> "7", keyCode |-> "Digit7", width |-> Null, shiftChar |-> Some("&")],
     [op |-> "addKey", displayChar |-> "8", keyCode |-> "Digit8", width |-> Null, shiftChar |-> Some("*")],
     [op |-> "addKey", displayChar |-> "9", keyCode |-> "Digit9", width |-> Null, shiftChar |-> Some("(")],
     [op |-> "addKey", displayChar |-> "0", keyCode |-> "Digit0", width |-> Null, shiftChar |-> Some(")")],
     [op |-> "addKey", displayChar |-> "-", keyCode |-> "Minus", width |-> Null, shiftChar |-> Some("_")],
     [op |-> "addKey", displayChar |-> "=", keyCode |-> "Equal", width |-> Null, shiftChar |-> Some("+")],
     [op |-> "addKey", displayChar |-> "delete", keyCode |-> "Backspace", width |-> Some(35), shiftChar |-> Null],
     [op |-> "nextRow", gap |-> 0],
     [op |-> "addKey", displayChar |-> "tab", keyCode |-> "Tab", width |-> Some(30), shiftChar |-> Null],
     [op |-> "addKey", displayChar |-> "q", keyCode |-> "KeyQ", width |-> Some(-1), shiftChar |-> Null],
     [op |-> "addKey", displayChar |-> "w", keyCode |-> "KeyW", width |-> Some(-1), shiftChar |-> Null],
     [op |-> "addKey", displayChar |-> "e", keyCode |-> "KeyE", width |-> Some(-1), shiftChar |-> Null],
     [op |-> "addKey", displayChar |-> "r", keyCode |-> "KeyR", width |-> Some(-1), shiftChar |-> Null],
     [op |-> "addKey", displayChar |-> "t", keyCode |-> "KeyT", width |-> Some(-1), shiftChar |-> Null],
     [op |-> "addKey", displayChar |-> "y", keyCode |-> "KeyY", width |-> Some(-1), shiftChar |-> Null],
     [op |-> "addKey", displayChar |-> "u", keyCode |-> "KeyU", width |-> Some(-1), shiftChar |-> Null],
     [op |-> "addKey", displayChar |-> "i", keyCode |-> "KeyI", width |-> Some(-1), shiftChar |-> Null],
     [op |-> "addKey", displayChar |-> "o", keyCode |-> "KeyO", width |-> Some(-1), shiftChar |-> Null],
     [op |-> "addKey", displayChar |-> "p", keyCode |-> "KeyP", width |-> Some(-1), shiftChar |-> Null],
     [op |-> "addKey", displayChar |-> "[", keyCode |-> "BracketLeft", width |-> Some(-1), shiftChar |-> Null],
     [op |-> "addKey", displayChar |-> "]", keyCode |-> "BracketRight", width |-> Some(-1), shiftChar |-> Null],
     [op |-> "addKey", displayChar |-> "\\", keyCode |-> "Backslash", width |-> Some(25), shiftChar |-> Some("|")],
     [op |-> "nextRow", gap |-> 0],
     [op |-> "addKey", displayChar |-> "caps", keyCode |-> "CapsLock", width |-> Some(35), shiftChar |-> Null],
     [op |-> "addKey", displayChar |-> "a", keyCode |-> "KeyA", width |-> Some(-1), shiftChar |-> Null],
     [op |-> "addKey", displayChar |-> "s", keyCode |-> "KeyS", width |-> Some(-1), shiftChar |-> Null],
     [op |-> "addKey", displayChar |-> "d", keyCode |-> "KeyD", width |-> Some(-1), shiftChar |-> Null],
     [op |-> "addKey", displayChar |-> "f", keyCode |-> "KeyF", width |-> Some(-1), shiftChar |-> Null],
     [op |-> "addKey", displayChar |-> "g", keyCode |-> "KeyG", width |-> Some(-1), shiftChar |-> Null],
     [op |-> "addKey", displayChar |-> "h", keyCode |-> "KeyH", width |-> Some(-1), shiftChar |-> Null],
     [op |-> "addKey", displayChar |-> "j", keyCode |-> "KeyJ", width |-> Some(-1), shiftChar |-> Null],
     [op |-> "addKey", displayChar |-> "k", keyCode |-> "KeyK", width |-> Some(-1), shiftChar |-> Null],
     [op |-> "addKey", displayChar |-> "l", keyCode |-> "KeyL", width |-> Some(-1), shiftChar |-> Null],
     [op |-> "addKey", displayChar |-> ";", keyCode |-> "Semicolon", width |-> Null, shiftChar |-> Some(":")],
     [op |-> "addKey", displayChar |-> "U+0027", keyCode |-> "Quote", width |-> Null, shiftChar |-> Some("\"")],
     [op |-> "addKey", displayChar |-> "Return", keyCode |-> "Enter", width |-> Some(40), shiftChar |-> Null],
     [op |-> "nextRow", gap |-> 0],
     [op |-> "addKey", displayChar |-> "Shift", keyCode |-> "ShiftLeft", width |-> Some(45), shiftChar |-> Null],
     [op |-> "addKey", displayChar |-> "z", keyCode |-> "KeyZ", width |-> Some(-1), shiftChar |-> Null],
     [op |-> "addKey", displayChar |-> "x", keyCode |-> "KeyX", width |-> Some(-1), shiftChar |-> Null],
     [op |-> "addKey", displayChar |-> "c", keyCode |-> "KeyC", width |-> Some(-1), shiftChar |-> Null],
     [op |-> "addKey", displayChar |-> "v", keyCode |-> "KeyV", width |-> Some(-1), shiftChar |-> Null],
     [op |-> "addKey", displayChar |-> "b", keyCode |-> "KeyB", width |-> Some(-1), shiftChar |-> Null],
     [op |-> "addKey", displayChar |-> "n", keyCode |-> "KeyN", width |-> Some(-1), shiftChar |-> Null],
     [op |-> "addKey", displayChar |-> "m", keyCode |-> "KeyM", width |-> Some(-1), shiftChar |-> Null],
     [op |-> "addKey", displayChar |-> ",", keyCode |-> "Comma", width |-> Null, shiftChar |-> Some("<")],
     [op |-> "addKey", displayChar |-> ".", keyCode |-> "Period", width |-> Null, shiftChar |-> Some(">")],
     [op |-> "addKey", displayChar |-> "/", keyCode |-> "Slash", width |-> Null, shiftChar |-> Some("?")],
     [op |-> "addKey", displayChar |-> "Shift", keyCode |-> "ShiftRight", width |-> Some(50), shiftChar |-> Null],
     [op |-> "nextRow", gap |-> 0],
     [op |-> "addKey", displayChar |-> "Fn", keyCode |-> "Function", width |-> Some(20), shiftChar |-> Null],
     [op |-> "addKey", displayChar |-> "U+2303", keyCode |-> "ControlLeft", width |-> Some(20), shiftChar |-> Null],
     [op |-> "addKey", displayChar |-> "U+2325", keyCode |-> "AltLeft", width |-> Some(20), shiftChar |-> Null],
     [op |-> "addKey", displayChar |-> "U+2318", keyCode |-> "MetaLeft", width |-> Some(25), shiftChar |-> Null],
     [op |-> "addKey", displayChar |-> "space", keyCode |-> "Space", width |-> Some(105), shiftChar |-> Null],
     [op |-> "addKey", displayChar |-> "U+2318", keyCode |-> "MetaRight", width |-> Some(25), shiftChar |-> Null],
     [op |-> "addKey", displayChar |-> "U+2325", keyCode |-> "AltRight", width |-> Some(20), shiftChar |-> Null],
     [op |-> "addKey", displayChar |-> "U+2190", keyCode |-> "ArrowLeft", width |-> Some(-1), shiftChar |-> Null],
     [op |-> "setHeight", key |-> 75, height |-> 10],
     [op |-> "addKey", displayChar |-> "U+2193", keyCode |-> "ArrowDown", width |-> Some(-1), shiftChar |-> Null],
     [op |-> "setHeight", key |-> 76, height |-> 10],
     [op |-> "addKey", displayChar |-> "U+2192", keyCode |-> "ArrowRight", width |-> Some(-1), shiftChar |-> Null],
     [op |-> "setHeight", key |-> 77, height |-> 10],
     [op |-> "addKey", displayChar |-> "U+2191", keyCode |-> "ArrowUp", width |-> Some(-1), shiftChar |-> Null],
     [op |-> "setHeight", key |-> 78, height |-> 10],
     [op |-> "copyX", key |-> 78, from |-> 76],
     [op |-> "addY", key |-> 75, dy |-> 10],
     [op |-> "addY", key |-> 76, dy |-> 10],
     [op |-> "addY", key |-> 77, dy |-> 10] >>

\* One placement call of a factory applied to the keyboard being built and
\* the row variable in scope
ApplyCall(b, o) ==
  CASE o.op = "nextRow" -> nextRow(b.keyboard, o.gap)
    [] o.op = "addKey" ->
         RowAddKey(b.keyboard, b.row, o.displayChar, o.keyCode, o.width, o.shiftChar)
    [] o.op = "addGap" -> [b EXCEPT !.row = RowAddGap(b.row, o.width)]
    [] o.op = "setHeightTimes" ->   \* key.size.height = keyboard.keySize.height * factor
         [b EXCEPT !.keyboard.keys[o.key].size.height =
                      Some(b.keyboard.keySize.height[1] * o.factor)]
    [] o.op = "setHeight" ->        \* key.size.height = height
         [b EXCEPT !.keyboard.keys[o.key].size.height = Some(o.height)]
    [] o.op = "setZIndex" ->        \* key.zIndex = zIndex
         [b EXCEPT !.keyboard.keys[o.key].zIndex = Some(o.zIndex)]
    [] o.op = "copyX" ->            \* key.position.x = from.position.x
         [b EXCEPT !.keyboard.keys[o.key].position.x = b.keyboard.keys[o.from].position.x]
    [] o.op = "addY" ->             \* key.position.y += dy
         [b EXCEPT !.keyboard.keys[o.key].position.y = @ + o.dy]

\* The calls script[lo..hi] applied in order to b.  The range is halved, and
\* the first half is evaluated (the test on it always holds) before the second
\* is entered, so that the evaluation does not nest as deep as the script is long.
RECURSIVE RunCalls(_, _, _, _)
RunCalls(script, lo, hi, b) ==
  IF lo > hi THEN b
  ELSE IF lo = hi THEN ApplyCall(b, script[lo])
  ELSE LET mid == (lo + hi) \div 2
           first == RunCalls(script, lo, mid, b)
       IN IF Len(first.keyboard.keys) >= 0
          THEN RunCalls(script, mid + 1, hi, first)
          ELSE first

\* A factory body: new Keyboard(), the placement calls, return keyboard
Build(script) ==
  RunCalls(script, 1, Len(script),
           [keyboard |-> NewKeyboard, row |-> KeyboardRow([x |-> 0, y |-> 0])]).keyboard

\* What a factory call ends with: the keyboard returned, or the exception thrown
Built(kb) == [keyboard |-> Some(kb), error |-> "none"]
Thrown(err) == [keyboard |-> Null, error |-> err]

getWindowsLogitechKeyboard == Built(Build(LogitechScript))

getWindowsHPDesktopKeyboard == Built(Build(HPDesktopScript))

getWindowsGenericKeyboard == Built(Build(GenericScript))

getMacBookProKeyboard == Built(Build(MacBookProScript))

\* Mutant: the customization without the remap() that follows it
Relabel_NoRemap(kb, oldCode, displayChar, keyCode) ==
  LET fnKey == getKey(kb, oldCode) IN
  CASE fnKey.kind = "key" ->
         Built([kb EXCEPT !.keys[fnKey.idx].displayChar = displayChar,
                          !.keys[fnKey.idx].keyCode = keyCode])
    [] fnKey.kind = "inherited" -> Built(kb)
    [] OTHER -> Thrown("TypeError")

\* Mutant: the customization also resizes and moves the key it relabels
Relabel_Resizes(kb, oldCode, displayChar, keyCode) ==
  LET fnKey == getKey(kb, oldCode) IN
  CASE fnKey.kind = "key" ->
         Built(remap([kb EXCEPT !.keys[fnKey.idx].displayChar = displayChar,
                                !.keys[fnKey.idx].keyCode = keyCode,
                                !.keys[fnKey.idx].size.width = Some(20),
                                !.keys[fnKey.idx].position.x = @ + 5]))
    [] fnKey.kind = "inherited" -> Built(remap(kb))
    [] OTHER -> Thrown("TypeError")

\* The customization of a derived layout: getKey(oldCode), assign the label
\* and the identifier of the key found, remap().  When getKey returns
\* undefined the first assignment throws.
Relabel(kb, oldCode, displayChar, keyCode) ==
  LET fnKey == getKey(kb, oldCode) IN
  CASE fnKey.kind = "key" ->
         Built(remap([kb EXCEPT !.keys[fnKey.idx].displayChar = displayChar,
                                !.keys[fnKey.idx].keyCode = keyCode]))
    [] fnKey.kind = "inherited" -> Built(remap(kb))
    [] OTHER -> Thrown("TypeError")

getWindowsLogitech2Keyboard ==
  Relabel(getWindowsLogitechKeyboard.keyboard[1], "ContextMenu", "Fn", "Fn")

\* KeyboardDefinitions.getOptions(): the models, in order
getOptions ==
  << [id |-> "cheap", name |-> "Generic Windows Keyboard",
      keyboard |-> getWindowsGenericKeyboard],
     [id |-> "hp-lowend", name |-> "HP Low End Desktop Keyboard",
      keyboard |-> getWindowsHPDesktopKeyboard],
     [id |-> "logitech", name |-> "Logitech Windows Desktop Keyboard",
      keyboard |-> getWindowsLogitechKeyboard],
     [id |-> "logitech2", name |-> "Logitech Windows Desktop Keyboard 2",
      keyboard |-> getWindowsLogitech2Keyboard],
     [id |-> "macbookpro", name |-> "Macbook Pro",
      keyboard |-> getMacBookProKeyboard] >>

----------------------------------------------------------------------------
\* KeyboardTester

\* Mutant: the keyboard built continues below the rows of the one it replaces,
\* as if all keyboards shared one vertical cursor
createKeyboard_Continues(cur, made) ==
  LET cleared == IF cur # Null THEN Some(clear(cur[1])) ELSE cur
      dy == IF cur # Null THEN cur[1].nextRowPosition.y - cur[1].startPosition.y ELSE 0
      moved == [made.keyboard[1] EXCEPT !.keys =
                  [i \in DOMAIN @ |-> [@[i] EXCEPT !.position.y = @ + dy]]]
  IN [keyboard |-> Some(render(moved)), previous |-> cleared, error |-> "none"]

\* Mutant: createKeyboard replaces the keyboard without clearing it first
createKeyboard_KeepsStates(cur, made) ==
  IF made.error = "none"
  THEN [keyboard |-> Some(render(made.keyboard[1])), previous |-> cur, error |-> "none"]
  ELSE [keyboard |-> cur, previous |-> Null, error |-> made.error]

\* KeyboardTester.createKeyboard(fnKeyboard) with fnKeyboard() ending in made:
\* clear the current keyboard if there is one, then replace it by the rendered
\* new one.  cur is Null or Some(keyboard).  When the factory throws, the
\* assignment is not reached and the cleared keyboard stays.  previous is the
\* keyboard object that this.keyboard no longer refers to afterwards, as
\* clear() left it.
createKeyboard(cur, made) ==
  LET cleared == IF cur # Null THEN Some(clear(cur[1])) ELSE cur IN
  IF made.error = "none"
  THEN [keyboard |-> Some(render(made.keyboard[1])), previous |-> cleared, error |-> "none"]
  ELSE [keyboard |-> cleared, previous |-> Null, error |-> made.error]

\* The identifiers the key events carry (KeyboardEvent.code): two keys of
\* every layout, the key the derived layout re-identifies and its new
\* identifier, and an identifier of no layout
EventCodes == {"KeyQ", "KeyW", "ContextMenu", "Fn", "F24"}

\* parent.clientWidth and element.clientWidth as the rescale tick may find them
ParentWidths == {800}
ElementWidths == {1000}

\* The states of the keys of kb that carry keyCode
StatesOf(kb, keyCode) ==
  {kb.keys[i].state : i \in {j \in DOMAIN kb.keys : kb.keys[j].keyCode = keyCode}}

\* The state of each key of kb, in the order of kb.keys
KeyStates(kb) == [i \in DOMAIN kb.keys |-> kb.keys[i].state]

\* The states of all keys of kb
AllStates(kb) == {kb.keys[i].state : i \in DOMAIN kb.keys}

\* Whether some key of kb carries keyCode
Carries(kb, keyCode) == \E i \in DOMAIN kb.keys : kb.keys[i].keyCode = keyCode

NoEvents == [c \in EventCodes |-> "none"]

Indices(kb) == [i \in DOMAIN kb.keys |-> i]

\* No change listener is running, and no keyboard has been replaced
NotSwitching == [pc |-> "idle", previous |-> Null]

\* Nothing has been allocated
EmptyHeap == [allocated |-> 0, options |-> <<>>, returned |-> <<>>]

\* new KeyboardTester(): #initDOM, then the change event on the dropdown, whose
\* first option is the one selected, then the key handlers are installed
Init ==
  /\ model = 1
  /\ keyboard = createKeyboard(Null, getOptions[1].keyboard).keyboard[1]
  /\ inherited = [n \in ProtoNames |-> Null]
  /\ lastWidth = Null
  /\ transform = Null
  /\ error = "none"
  /\ last = [op |-> "init", code |-> "", prior |-> {}, rendered |-> Indices(keyboard)]
  /\ latest = NoEvents
  /\ currentRow = Null
  /\ logged = <<>>
  /\ calls = [gaps |-> <<>>, advances |-> <<>>, made |-> 0, returned |-> TRUE]
  /\ switching = NotSwitching
  /\ heap = EmptyHeap

\* document.onkeydown: this.keyboard.onKeyDown(event.code)
DocumentOnKeyDown ==
  \E code \in EventCodes :
    LET res == onKeyDown(keyboard, inherited, code) IN
    /\ keyboard' = res.keyboard
    /\ inherited' = res.inherited
    /\ error' = res.error
    /\ last' = [op |-> "keydown", code |-> code, prior |-> StatesOf(keyboard, code),
                rendered |-> res.rendered]
    /\ latest' = IF Carries(keyboard, code) THEN [latest EXCEPT ![code] = "down"] ELSE latest
    /\ UNCHANGED <<switching, heap, model, lastWidth, transform, currentRow, logged, calls>>

\* document.onkeyup: this.keyboard.onKeyUp(event.code)
DocumentOnKeyUp ==
  \E code \in EventCodes :
    LET res == onKeyUp(keyboard, inherited, code) IN
    /\ keyboard' = res.keyboard
    /\ inherited' = res.inherited
    /\ error' = res.error
    /\ last' = [op |-> "keyup", code |-> code, prior |-> StatesOf(keyboard, code),
                rendered |-> res.rendered]
    /\ latest' = IF Carries(keyboard, code) THEN [latest EXCEPT ![code] = "up"] ELSE latest
    /\ UNCHANGED <<switching, heap, model, lastWidth, transform, currentRow, logged, calls>>

\* $btnClear.onclick: this.keyboard.clear()
BtnClearOnClick ==
  /\ keyboard' = clear(keyboard)
  /\ error' = "none"
  /\ last' = [op |-> "clear", code |-> "", prior |-> AllStates(keyboard),
              rendered |-> Indices(keyboard)]
  /\ latest' = NoEvents
  /\ UNCHANGED <<switching, heap, model, inherited, lastWidth, transform, currentRow, logged, calls>>

\* The change listener of $ddlModel: createKeyboard(models[selectedIndex].keyboard)
DdlModelOnChange ==
  \E m \in DOMAIN getOptions :
    LET res == createKeyboard(Some(keyboard), getOptions[m].keyboard) IN
    /\ model' = m
    /\ keyboard' = res.keyboard[1]
    /\ error' = res.error
    /\ last' = [op |-> "change", code |-> getOptions[m].id, prior |-> AllStates(keyboard),
                rendered |-> Indices(keyboard'), from |-> model,
                dropped |-> IF res.previous = Null THEN Null
                            ELSE Some(KeyStates(res.previous[1]))]
    /\ latest' = NoEvents
    /\ UNCHANGED <<switching, heap, inherited, lastWidth, transform, currentRow, logged, calls>>

\* Mutant: the tick also resets the keyboard whenever it rescales it
ScaleToParentTick_Resets ==
  \E pw \in ParentWidths, ew \in ElementWidths :
    /\ IF TruthyNum(lastWidth) /\ lastWidth = Some(pw)
       THEN UNCHANGED <<lastWidth, transform, keyboard>>
       ELSE /\ lastWidth' = Some(pw)
            /\ transform' = Some(<<pw, ew>>)
            /\ keyboard' = clear(keyboard)
    /\ error' = "none"
    /\ last' = [op |-> "tick", code |-> "", prior |-> {}, rendered |-> <<>>]
    /\ UNCHANGED <<switching, heap, model, inherited, latest, currentRow, logged, calls>>

\* The setInterval callback: KeyboardTester.scaleToParent()
ScaleToParentTick ==
  \E pw \in ParentWidths, ew \in ElementWidths :
    /\ IF TruthyNum(lastWidth) /\ lastWidth = Some(pw)
       THEN UNCHANGED <<switching, heap, lastWidth, transform>>
       ELSE /\ lastWidth' = Some(pw)
            /\ transform' = Some(<<pw, ew>>)
    /\ error' = "none"
    /\ last' = [op |-> "tick", code |-> "", prior |-> {}, rendered |-> <<>>]
    /\ UNCHANGED <<switching, heap, keyboard, model, inherited, latest, currentRow, logged, calls>>

Next ==
  \/ DocumentOnKeyDown
  \/ DocumentOnKeyUp
  \/ BtnClearOnClick
  \/ DdlModelOnChange
  \/ ScaleToParentTick

Spec == Init /\ [][Next]_vars

\* Keyboard.onKeyDown / onKeyUp called with an identifier string that no
\* keyboard layout uses and that no KeyboardEvent.code of a physical key
\* takes: a name every plain object inherits
InheritedIds == {"constructor"}

OnKeyDownAnyId ==
  \E code \in InheritedIds :
    LET res == onKeyDown(keyboard, inherited, code) IN
    /\ keyboard' = res.keyboard
    /\ inherited' = res.inherited
    /\ error' = res.error
    /\ last' = [op |-> "keydown", code |-> code, prior |-> StatesOf(keyboard, code),
                rendered |-> res.rendered]
    /\ latest' = latest
    /\ UNCHANGED <<switching, heap, model, lastWidth, transform, currentRow, logged, calls>>

OnKeyUpAnyId ==
  \E code \in InheritedIds :
    LET res == onKeyUp(keyboard, inherited, code) IN
    /\ keyboard' = res.keyboard
    /\ inherited' = res.inherited
    /\ error' = res.error
    /\ last' = [op |-> "keyup", code |-> code, prior |-> StatesOf(keyboard, code),
                rendered |-> res.rendered]
    /\ latest' = latest
    /\ UNCHANGED <<switching, heap, model, lastWidth, transform, currentRow, logged, calls>>

NextAnyId ==
  \/ Next
  \/ OnKeyDownAnyId
  \/ OnKeyUpAnyId

\* The program with its key handlers called on any identifier string
SpecAnyId == Init /\ [][NextAnyId]_vars

----------------------------------------------------------------------------
\* Properties

\* The keys of kb that carry keyCode
KeysOf(kb, keyCode) == {i \in DOMAIN kb.keys : kb.keys[i].keyCode = keyCode}

\* The keys the last handler rendered
Rendered == {last.rendered[n] : n \in DOMAIN last.rendered}

KeyEvent(op) == op \in {"keydown", "keyup"}

\* C1: a key-down for the identifier of a key of the active keyboard leaves
\* that key Down, whatever its state was (also when it was Down already), and
\* renders it: its element then shows the Down state.
C1_KeyDownSetsDown ==
  last.op = "keydown" =>
    \A i \in KeysOf(keyboard, last.code) :
      /\ keyboard.keys[i].state = Down
      /\ i \in Rendered
      /\ keyboard.keys[i].ref[1].className = Some(<<"key", Down>>)

\* A key-down arrived for KeyQ while KeyQ was Down
C1_Witness ==
  /\ last.op = "keydown" /\ last.code = "KeyQ" /\ last.prior = {Down}
  /\ \E i \in KeysOf(keyboard, "KeyQ") : keyboard.keys[i].state = Down /\ i \in Rendered

\* C2: a key-up for the identifier of a key of the active keyboard leaves that
\* key Pressed, whatever its state was.
C2_KeyUpSetsPressed ==
  last.op = "keyup" =>
    \A i \in KeysOf(keyboard, last.code) : keyboard.keys[i].state = Pressed

\* A key-up arrived for KeyQ while KeyQ was NeverPressed
C2_Witness ==
  /\ last.op = "keyup" /\ last.code = "KeyQ" /\ last.prior = {NeverPressed}
  /\ \E i \in KeysOf(keyboard, "KeyQ") : keyboard.keys[i].state = Pressed

\* C3: after clear() every key of the keyboard is NeverPressed, whatever the
\* states were before.
C3_ClearResetsAll ==
  last.op = "clear" => \A i \in DOMAIN keyboard.keys : keyboard.keys[i].state = NeverPressed

\* clear() ran on a keyboard that held NeverPressed, Down and Pressed keys
C3_Witness ==
  /\ last.op = "clear" /\ last.prior = KeyState
  /\ AllStates(keyboard) = {NeverPressed}

\* C4: a key that is not NeverPressed does not return to NeverPressed by any
\* handler other than clear() (which the model switch runs on the keyboard it
\* replaces): not by a key-down or key-up for any identifier, nor by a tick.
C4_Sticky ==
  [][ last'.op \notin {"clear", "change"} =>
        \A i \in DOMAIN keyboard.keys :
          keyboard.keys[i].state # NeverPressed => keyboard'.keys[i].state # NeverPressed ]_vars

\* A key-down arrived for a key that was Pressed, while another key was Down
C4_Witness ==
  /\ last.op = "keydown" /\ last.code = "KeyW" /\ last.prior = {Pressed}
  /\ Down \in StatesOf(keyboard, "KeyQ")

\* C5: a key-down or key-up for an identifier that no key of the active
\* keyboard carries changes no key's state, renders nothing and raises no error.
C5_UnknownIdSafe ==
  [][ (KeyEvent(last'.op) /\ ~Carries(keyboard, last'.code)) =>
        /\ KeyStates(keyboard') = KeyStates(keyboard)
        /\ last'.rendered = <<>>
        /\ error' = "none" ]_vars

\* C6 as claimed: under key-down and key-up events a key leaves NeverPressed
\* only to Down and enters Pressed only from Down.
C6_CycleOnly ==
  [][ KeyEvent(last'.op) =>
        \A i \in DOMAIN keyboard.keys :
          LET s == keyboard.keys[i].state
              t == keyboard'.keys[i].state
          IN /\ (s = NeverPressed /\ t # s) => t = Down
             /\ (s # Pressed /\ t = Pressed) => s = Down ]_vars

\* C6 as amended: under key-down and key-up events a key changes state only
\* to Down, by a key-down for its identifier, or to Pressed, by a key-up for
\* its identifier, from whatever state it is in (a key-up that no key-down
\* preceded takes a NeverPressed key to Pressed); it never enters NeverPressed.
C6_Transitions ==
  [][ KeyEvent(last'.op) =>
        \A i \in DOMAIN keyboard.keys :
          LET s == keyboard.keys[i].state
              t == keyboard'.keys[i].state
              mine == keyboard.keys[i].keyCode = last'.code
          IN /\ t # s => mine
             /\ mine => t = (IF last'.op = "keydown" THEN Down ELSE Pressed)
             /\ t = NeverPressed => s = NeverPressed ]_vars

\* A key-up arrived for ContextMenu, which was NeverPressed, and made it Pressed
C6_Witness ==
  /\ last.op = "keyup" /\ last.code = "ContextMenu" /\ last.prior = {NeverPressed}
  /\ StatesOf(keyboard, "ContextMenu") = {Pressed}

\* C7: since the keyboard was built or last cleared, each key is Down if the
\* last key event that carried its identifier was a key-down, Pressed if it
\* was a key-up, and NeverPressed if no key event carried its identifier.
C7_LatestEventWins ==
  \A i \in DOMAIN keyboard.keys :
    LET c == keyboard.keys[i].keyCode
        e == IF c \in EventCodes THEN latest[c] ELSE "none"
    IN keyboard.keys[i].state =
         (CASE e = "down" -> Down [] e = "up" -> Pressed [] OTHER -> NeverPressed)

\* KeyQ was released last, KeyW was pushed last, and events that no key carries came in
C7_Witness ==
  /\ latest["KeyQ"] = "up" /\ latest["KeyW"] = "down"
  /\ StatesOf(keyboard, "KeyQ") = {Pressed} /\ StatesOf(keyboard, "KeyW") = {Down}
  /\ last.code = "F24"

\* One key event applied to a keyboard
ApplyEvent(kb, op, code) ==
  IF op = "keydown" THEN onKeyDown(kb, inherited, code).keyboard
  ELSE onKeyUp(kb, inherited, code).keyboard

\* C8: from every reachable keyboard, two key events on different identifiers
\* give the same key states in either order.
C8_EventsCommute ==
  \A a \in EventCodes, b \in EventCodes :
    a # b =>
      \A e1 \in {"keydown", "keyup"}, e2 \in {"keydown", "keyup"} :
        KeyStates(ApplyEvent(ApplyEvent(keyboard, e1, a), e2, b))
          = KeyStates(ApplyEvent(ApplyEvent(keyboard, e2, b), e1, a))

\* Events on KeyQ and on the re-identified key Fn of the derived layout have
\* both changed their keys
C8_Witness ==
  /\ model = 4
  /\ StatesOf(keyboard, "KeyQ") = {Down} /\ StatesOf(keyboard, "Fn") = {Pressed}
  /\ last.op = "keyup" /\ last.code = "Fn" /\ last.prior = {Down}

\* C9: a key-down or key-up for an identifier changes the state of no key
\* other than the one the index holds under that identifier.
C9_AtMostOneKey ==
  [][ KeyEvent(last'.op) =>
        \A i \in DOMAIN keyboard.keys :
          keyboard'.keys[i].state # keyboard.keys[i].state =>
            /\ last'.code \in DOMAIN keyboard.map
            /\ keyboard.map[last'.code] = i ]_vars

\* A key-up changed KeyW from Down to Pressed while two other keys were Down
C9_Witness ==
  /\ last.op = "keyup" /\ last.code = "KeyW" /\ last.prior = {Down}
  /\ StatesOf(keyboard, "KeyW") = {Pressed}
  /\ StatesOf(keyboard, "KeyQ") = {Down} /\ StatesOf(keyboard, "ContextMenu") = {Down}

\* C10: in every keyboard the catalog builds no two keys share a keyCode, and
\* the index holds exactly one entry per key: under each key's keyCode, that key.
C10_UniqueIdentifiers ==
  /\ Cardinality({keyboard.keys[i].keyCode : i \in DOMAIN keyboard.keys}) = Len(keyboard.keys)
  /\ Cardinality(DOMAIN keyboard.map) = Len(keyboard.keys)
  /\ \A i \in DOMAIN keyboard.keys :
       /\ keyboard.keys[i].keyCode \in DOMAIN keyboard.map
       /\ keyboard.map[keyboard.keys[i].keyCode] = i

\* The derived layout, whose key Fn was re-identified after placement, is the active keyboard
C10_Witness ==
  /\ model = 4 /\ last.op = "change"
  /\ Carries(keyboard, "Fn") /\ ~Carries(keyboard, "ContextMenu")

\* The latest events of the scenario: KeyQ released, KeyW pushed, no other identifier used
ScenarioEvents == [NoEvents EXCEPT !["KeyQ"] = "up", !["KeyW"] = "down"]

\* C11: on the Generic Windows layout, once KeyQ has gone down and up and
\* KeyW has gone down only, KeyQ is Pressed, KeyW is Down and every other key
\* is NeverPressed; clear() then leaves every key, KeyQ and KeyW among them,
\* NeverPressed.
C11_GenericScenario ==
  ( /\ getOptions[model].keyboard = getWindowsGenericKeyboard
    /\ latest = ScenarioEvents
    /\ last.op = "keydown" /\ last.code = "KeyW" ) =>
      /\ KeysOf(keyboard, "KeyQ") # {} /\ KeysOf(keyboard, "KeyW") # {}
      /\ \A i \in DOMAIN keyboard.keys :
           keyboard.keys[i].state =
             (CASE keyboard.keys[i].keyCode = "KeyQ" -> Pressed
                [] keyboard.keys[i].keyCode = "KeyW" -> Down
                [] OTHER -> NeverPressed)
      /\ \A i \in DOMAIN keyboard.keys : clear(keyboard).keys[i].state = NeverPressed

\* The scenario has run on the Generic layout up to the key-down for KeyW
C11_Witness ==
  /\ getOptions[model].id = "cheap" /\ Len(keyboard.keys) = 107
  /\ latest = ScenarioEvents
  /\ last.op = "keydown" /\ last.code = "KeyW" /\ last.prior = {NeverPressed}
  /\ StatesOf(keyboard, "KeyQ") = {Pressed} /\ StatesOf(keyboard, "KeyW") = {Down}

\* The position in keys of the key that getWindowsLogitech2Keyboard relabels
Relabelled == getWindowsLogitechKeyboard.keyboard[1].map["ContextMenu"]

\* C12: on the derived Logitech 2 layout a key-down or key-up for ContextMenu
\* changes no key's state and raises nothing, and a key-up for Fn leaves the
\* relabelled key (labelled Fn, identified as Fn) Pressed.
C12_DerivedLayout ==
  [][ (getOptions[model].id = "logitech2" /\ KeyEvent(last'.op)) =>
        /\ last'.code = "ContextMenu" =>
             /\ KeyStates(keyboard') = KeyStates(keyboard)
             /\ error' = "none"
        /\ (last'.op = "keyup" /\ last'.code = "Fn") =>
             /\ keyboard'.keys[Relabelled].state = Pressed
             /\ keyboard'.keys[Relabelled].displayChar = "Fn"
             /\ keyboard'.keys[Relabelled].keyCode = "Fn" ]_vars

\* On the derived layout Fn was released, which left the relabelled key
\* Pressed, and a key-up for ContextMenu then arrived and rendered nothing
C12_Witness ==
  /\ getOptions[model].id = "logitech2"
  /\ latest["Fn"] = "up" /\ keyboard.keys[Relabelled].state = Pressed
  /\ keyboard.keys[Relabelled].keyCode = "Fn"
  /\ last.op = "keyup" /\ last.code = "ContextMenu" /\ last.rendered = <<>>

----------------------------------------------------------------------------
\* The layout builder, called as the factory bodies call it

\* Whether Keyboard.getKey(keyCode) takes its error branch (key === null)
getKeyLogs(kb, keyCode) == MapGet(kb.map, keyCode).kind = "null"

\* The most placement calls (nextRow, addKey, addGap) of a factory body
MaxCalls == 4

\* The gaps passed to nextRow (0 is the default of an omitted gap)
RowGaps == {-5, 0, 5}

\* The argument lists passed to addKey: width omitted (Some(-1) is the
\* default), null with a shift label, zero, negative, and given
KeyCalls ==
  { [displayChar |-> "q", keyCode |-> "KeyQ", width |-> Some(-1), shiftChar |-> Null],
    [displayChar |-> "1", keyCode |-> "Digit1", width |-> Null, shiftChar |-> Some("!")],
    [displayChar |-> "q", keyCode |-> "KeyQ", width |-> Some(0), shiftChar |-> Null],
    [displayChar |-> "q", keyCode |-> "KeyQ", width |-> Some(-5), shiftChar |-> Null],
    [displayChar |-> "Menu", keyCode |-> "ContextMenu", width |-> Some(35), shiftChar |-> Null] }

\* The widths passed to addGap
GapWidths == {15}

\* The identifiers a derived factory looks up, and the one it assigns
LookupIds == {"ContextMenu", "Fn", "constructor"}
NewIds == {"Fn"}

\* The identifiers the keys of kb carry
KeyCodes(kb) == {kb.keys[i].keyCode : i \in DOMAIN kb.keys}

\* const keyboard = new Keyboard(): the start of a factory body
BuildInit ==
  /\ keyboard = NewKeyboard
  /\ currentRow = Null
  /\ logged = <<>>
  /\ calls = [gaps |-> <<>>, advances |-> <<>>, made |-> 0, returned |-> FALSE]
  /\ switching = NotSwitching
  /\ heap = EmptyHeap
  /\ error = "none"
  /\ last = [op |-> "new"]
  /\ model = 0
  /\ inherited = [n \in ProtoNames |-> Null]
  /\ lastWidth = Null
  /\ transform = Null
  /\ latest = NoEvents

\* let row = keyboard.nextRow(gap)
BuildNextRow ==
  \E gap \in RowGaps :
    LET res == nextRow(keyboard, gap) IN
    /\ error = "none" /\ ~calls.returned /\ calls.made < MaxCalls
    /\ keyboard' = res.keyboard
    /\ currentRow' = Some(res.row)
    /\ calls' = [calls EXCEPT !.gaps = Append(@, gap), !.advances = <<>>, !.made = @ + 1]
    /\ last' = [op |-> "nextRow", gap |-> gap]
    /\ UNCHANGED <<switching, heap, model, inherited, lastWidth, transform, error, latest, logged>>

\* row.addKey(displayChar, keyCode, width, shiftChar)
BuildAddKey ==
  \E k \in KeyCalls :
    LET res == RowAddKey(keyboard, currentRow[1], k.displayChar, k.keyCode, k.width, k.shiftChar) IN
    /\ error = "none" /\ ~calls.returned /\ calls.made < MaxCalls
    /\ currentRow # Null
    /\ keyboard' = res.keyboard
    /\ currentRow' = Some(res.row)
    /\ calls' = [calls EXCEPT !.advances =
                   Append(@, res.row.nextPosition.x - currentRow[1].nextPosition.x),
                              !.made = @ + 1]
    /\ last' = [op |-> "addKey", displayChar |-> k.displayChar, code |-> k.keyCode,
                width |-> k.width, shiftChar |-> k.shiftChar]
    /\ UNCHANGED <<switching, heap, model, inherited, lastWidth, transform, error, latest, logged>>

\* row.addGap(width)
BuildAddGap ==
  \E width \in GapWidths :
    /\ error = "none" /\ ~calls.returned /\ calls.made < MaxCalls
    /\ currentRow # Null
    /\ currentRow' = Some(RowAddGap(currentRow[1], width))
    /\ calls' = [calls EXCEPT !.advances = Append(@, width), !.made = @ + 1]
    /\ last' = [op |-> "addGap", width |-> width]
    /\ UNCHANGED <<switching, heap, keyboard, model, inherited, lastWidth, transform, error, latest, logged>>

\* return keyboard: the factory body ends, and its row variable with it
BuildReturn ==
  /\ error = "none" /\ ~calls.returned
  /\ currentRow' = Null
  /\ calls' = [gaps |-> <<>>, advances |-> <<>>, made |-> calls.made, returned |-> TRUE]
  /\ last' = [op |-> "return"]
  /\ UNCHANGED <<switching, heap, keyboard, model, inherited, lastWidth, transform, error, latest, logged>>

\* keyboard.getKey(keyCode), by a factory that derives its layout from the
\* keyboard returned
BuildGetKey ==
  \E keyCode \in LookupIds :
    /\ error = "none" /\ calls.returned
    /\ logged' = IF getKeyLogs(keyboard, keyCode)
                 THEN Append(logged, <<"could not find key ", keyCode>>)
                 ELSE logged
    /\ last' = [op |-> "getKey", code |-> keyCode,
                returned |-> IF getKeyLogs(keyboard, keyCode) THEN [kind |-> "null"]
                             ELSE getKey(keyboard, keyCode)]
    /\ UNCHANGED <<switching, heap, keyboard, model, inherited, lastWidth, transform, error, latest,
                   currentRow, calls>>

\* key.displayChar = id; key.keyCode = id, on a key that getKey returned
BuildSetKeyCode ==
  \E i \in DOMAIN keyboard.keys, id \in NewIds :
    /\ error = "none" /\ calls.returned
    /\ id \notin KeyCodes(keyboard)
    /\ keyboard.keys[i].keyCode \in DOMAIN keyboard.map
    /\ keyboard.map[keyboard.keys[i].keyCode] = i
    /\ keyboard' = [keyboard EXCEPT !.keys[i].displayChar = id, !.keys[i].keyCode = id]
    /\ last' = [op |-> "setKeyCode", code |-> keyboard.keys[i].keyCode, key |-> i]
    /\ UNCHANGED <<switching, heap, model, inherited, lastWidth, transform, error, latest,
                   currentRow, logged, calls>>

\* keyboard.remap()
BuildRemap ==
  /\ error = "none" /\ calls.returned
  /\ keyboard' = remap(keyboard)
  /\ last' = [op |-> "remap", stale |-> (DOMAIN keyboard.map) \ KeyCodes(keyboard)]
  /\ UNCHANGED <<switching, heap, model, inherited, lastWidth, transform, error, latest,
                 currentRow, logged, calls>>

\* The whole customization of a derived factory, as in
\* getWindowsLogitech2Keyboard: getKey(keyCode), the two assignments to the
\* key returned, remap().  An exception ends the factory.
BuildDerive ==
  \E keyCode \in LookupIds :
    LET res == Relabel(keyboard, keyCode, "Fn", "Fn") IN
    /\ error = "none" /\ calls.returned
    /\ keyboard' = IF res.error = "none" THEN res.keyboard[1] ELSE keyboard
    /\ error' = res.error
    /\ logged' = IF getKeyLogs(keyboard, keyCode)
                 THEN Append(logged, <<"could not find key ", keyCode>>)
                 ELSE logged
    /\ last' = [op |-> "derive", code |-> keyCode, found |-> getKey(keyboard, keyCode).kind]
    /\ UNCHANGED <<switching, heap, model, inherited, lastWidth, transform, latest, currentRow, calls>>

BuildNext ==
  \/ BuildNextRow
  \/ BuildAddKey
  \/ BuildAddGap
  \/ BuildReturn
  \/ BuildGetKey
  \/ BuildSetKeyCode
  \/ BuildRemap
  \/ BuildDerive

\* A factory body, and a derived factory's customization of what it returns
SpecBuild == BuildInit /\ [][BuildNext]_vars

\* C13: getKey for an identifier that matches no placed key logs an error
\* and returns null, and a derived factory that looks such an identifier up
\* ends without an exception.
C13_MissingKeyReported ==
  /\ ( /\ last.op = "getKey"
       /\ last.code \notin KeyCodes(keyboard) /\ last.code \notin DOMAIN keyboard.map ) =>
         /\ last.returned.kind = "null"
         /\ logged # <<>>
  /\ (last.op = "derive" /\ last.found # "key") => error = "none"

\* The widths addKey does not keep: null, the default of an omitted width,
\* zero and a negative width
NotKept == {Null, Some(-1), Some(0), Some(-5)}

\* C14: addKey keeps a width > 0 as given and moves the row cursor by it.
\* Called with the width omitted, null, 0 or negative it leaves the key's
\* width to the keyboard's default key width, moves the cursor by exactly that
\* default, and the keyboard and row it leaves are the same for all four.
C14_WidthDefault ==
  [][ last'.op = "addKey" =>
        LET w == last'.width
            key == keyboard'.keys[Len(keyboard'.keys)]
            default == keyboard.keySize.width
            advance == currentRow'[1].nextPosition.x - currentRow[1].nextPosition.x
        IN IF w # Null /\ w[1] > 0
           THEN /\ key.size.width = w
                /\ advance = w[1]
           ELSE /\ w \in NotKept
                /\ key.size.width = Null
                /\ applyDefaultsTo(key.size, keyboard.keySize).width = default
                /\ advance = default[1]
                /\ \A v \in NotKept :
                     RowAddKey(keyboard, currentRow[1], last'.displayChar, last'.code,
                               v, last'.shiftChar)
                       = [keyboard |-> keyboard', row |-> currentRow'[1]] ]_vars

\* A second key was added to a row, with width 0: its width is left to the
\* default, and it moved the cursor by the default width as the first had
C14_Witness ==
  /\ last.op = "addKey" /\ last.width = Some(0)
  /\ Len(keyboard.keys) = 2
  /\ keyboard.keys[1].size.width = Null /\ keyboard.keys[2].size.width = Null
  /\ calls.advances = <<20, 20>>
  /\ currentRow[1].nextPosition.x = currentRow[1].position.x + 40

\* The sum of a sequence of numbers
RECURSIVE SumSeq(_)
SumSeq(s) == IF s = <<>> THEN 0 ELSE s[1] + SumSeq(Tail(s))

\* C15: nextRow(gap) returns a row whose start and cursor are
\* (startPosition.x, vertical cursor + gap) and moves the keyboard's vertical
\* cursor by gap + default key height; so the k-th row's y is startPosition.y
\* plus the gaps so far plus (k-1) default key heights, and a row taken with
\* a gap >= 0 starts at least one default key height below the row before it.
C15_NextRow ==
  [][ last'.op = "nextRow" =>
        LET gap == last'.gap
            r == currentRow'[1]
            h == keyboard.keySize.height[1]
            k == Len(calls'.gaps)
        IN /\ r.position = [x |-> keyboard.startPosition.x, y |-> keyboard.nextRowPosition.y + gap]
           /\ r.nextPosition = r.position
           /\ keyboard'.nextRowPosition =
                [x |-> keyboard.startPosition.x, y |-> keyboard.nextRowPosition.y + gap + h]
           /\ r.position.y = keyboard.startPosition.y + SumSeq(calls'.gaps) + (k - 1) * h
           /\ (currentRow # Null /\ gap >= 0) => r.position.y >= currentRow[1].position.y + h ]_vars

\* A second row was taken with gap 5 after a first row taken with gap 5
C15_Witness ==
  /\ last.op = "nextRow" /\ calls.gaps = <<5, 5>>
  /\ currentRow[1].position = [x |-> 10, y |-> 40]
  /\ currentRow[1].nextPosition = [x |-> 10, y |-> 40]
  /\ keyboard.nextRowPosition = [x |-> 10, y |-> 60]

\* C16: addKey gives the new key the position of the row cursor at call time,
\* then moves the cursor's x by the resolved width (the width given if > 0,
\* else the default) and leaves its y; it appends exactly that one key to
\* keyboard.keys, leaving the keys before it as they were, and the index then
\* holds the new key under its keyCode.  So the key's x is the row's start x
\* plus the widths and gaps added to the row before it.
C16_AddKey ==
  [][ last'.op = "addKey" =>
        LET w == last'.width
            resolved == IF w # Null /\ w[1] > 0 THEN w[1] ELSE keyboard.keySize.width[1]
            before == currentRow[1]
            after == currentRow'[1]
            n == Len(keyboard.keys) + 1
            key == keyboard'.keys[n]
        IN /\ Len(keyboard'.keys) = n
           /\ SubSeq(keyboard'.keys, 1, n - 1) = keyboard.keys
           /\ key.keyCode = last'.code /\ key.displayChar = last'.displayChar
           /\ key.position = before.nextPosition
           /\ after.nextPosition = [x |-> before.nextPosition.x + resolved,
                                    y |-> before.nextPosition.y]
           /\ after.position = before.position
           /\ getKey(keyboard', last'.code) = [kind |-> "key", idx |-> n]
           /\ \A c \in (DOMAIN keyboard.map) \ {last'.code} :
                getKey(keyboard', c) = getKey(keyboard, c)
           /\ key.position.x = before.position.x + SumSeq(calls.advances)
           /\ key.position.y = before.position.y ]_vars

\* The third call on a row added the ContextMenu key with width 35, after a
\* key of default width and a gap of 15: the key is at the row start plus 35
C16_Witness ==
  /\ last.op = "addKey" /\ last.code = "ContextMenu" /\ last.width = Some(35)
  /\ calls.advances = <<20, 15, 35>>
  /\ Len(keyboard.keys) = 2
  /\ keyboard.keys[2].position.x = currentRow[1].position.x + 35
  /\ currentRow[1].nextPosition.x = currentRow[1].position.x + 70
  /\ getKey(keyboard, "ContextMenu") = [kind |-> "key", idx |-> 2]

\* C17: addGap(w) moves the row cursor's x by exactly w and changes nothing
\* else: the cursor's y and the row's start stay, no key is created,
\* keyboard.keys, the index and the keyboard's vertical cursor are unchanged.
C17_AddGapFrame ==
  [][ last'.op = "addGap" =>
        /\ currentRow'[1].nextPosition.x = currentRow[1].nextPosition.x + last'.width
        /\ currentRow'[1].nextPosition.y = currentRow[1].nextPosition.y
        /\ currentRow'[1].position = currentRow[1].position
        /\ keyboard'.keys = keyboard.keys
        /\ keyboard'.map = keyboard.map
        /\ keyboard'.nextRowPosition = keyboard.nextRowPosition
        /\ keyboard' = keyboard
        /\ logged' = logged /\ error' = error ]_vars

\* A gap of 15 was added to a second row after a key of width 35
C17_Witness ==
  /\ last.op = "addGap" /\ last.width = 15
  /\ Len(calls.gaps) = 2 /\ calls.advances = <<35, 15>>
  /\ Len(keyboard.keys) = 1
  /\ currentRow[1].nextPosition.x = currentRow[1].position.x + 50
  /\ currentRow[1].nextPosition.y = currentRow[1].position.y

\* The width and height of a key's rectangle, null taken as the keyboard default
WidthOf(kb, key) == IF key.size.width = Null THEN kb.keySize.width[1] ELSE key.size.width[1]
HeightOf(kb, key) == IF key.size.height = Null THEN kb.keySize.height[1] ELSE key.size.height[1]

\* Whether the rectangles of two keys of kb share a point of their interiors
Intersect(kb, a, b) ==
  /\ a.position.x < b.position.x + WidthOf(kb, b)
  /\ b.position.x < a.position.x + WidthOf(kb, a)
  /\ a.position.y < b.position.y + HeightOf(kb, b)
  /\ b.position.y < a.position.y + HeightOf(kb, a)

\* A key given a height above the default key height
Tall(kb, key) == key.size.height # Null /\ key.size.height[1] > kb.keySize.height[1]

\* C18: in every keyboard of the catalog the rectangles of two distinct keys
\* (null width and height taken as the default, 20 by 20) intersect only when
\* one of the two is a tall key.
C18_NonOverlapping ==
  /\ keyboard.keySize = [width |-> Some(20), height |-> Some(20)]
  /\ \A i \in DOMAIN keyboard.keys :
       \A j \in (i+1) .. Len(keyboard.keys) :
         LET a == keyboard.keys[i]
             b == keyboard.keys[j]
         IN Intersect(keyboard, a, b) => Tall(keyboard, a) \/ Tall(keyboard, b)

\* The Generic layout is active: its Enter key, two rows tall, lies over the
\* Backslash key of the row below
C18_Witness ==
  /\ getOptions[model].id = "cheap"
  /\ \E i \in KeysOf(keyboard, "Enter"), j \in KeysOf(keyboard, "Backslash") :
       /\ Intersect(keyboard, keyboard.keys[i], keyboard.keys[j])
       /\ Tall(keyboard, keyboard.keys[i]) /\ ~Tall(keyboard, keyboard.keys[j])

\* C19: after remap() the index holds an entry for exactly the keyCodes the
\* keys of keyboard.keys now carry, each entry a key that carries it, and for
\* no other identifier: an identifier that a key carried before it was changed
\* no longer resolves to a key.
C19_RemapRebuilds ==
  (last.op = "remap" \/ (last.op = "derive" /\ error = "none")) =>
    /\ DOMAIN keyboard.map = KeyCodes(keyboard)
    /\ \A c \in DOMAIN keyboard.map : keyboard.keys[keyboard.map[c]].keyCode = c
    /\ last.op = "remap" => \A c \in last.stale : getKey(keyboard, c).kind # "key"

\* remap() ran on a keyboard of two keys whose ContextMenu key had been
\* re-identified as Fn while the index still held it under ContextMenu
C19_Witness ==
  /\ last.op = "remap" /\ last.stale = {"ContextMenu"}
  /\ Len(keyboard.keys) = 2
  /\ DOMAIN keyboard.map = {"KeyQ", "Fn"}
  /\ getKey(keyboard, "ContextMenu").kind = "undefined"
  /\ keyboard.keys[getKey(keyboard, "Fn").idx].displayChar = "Fn"

\* C20: when the model is switched, every key of the keyboard that is
\* replaced has been set to NeverPressed when it is dropped, and every key of
\* the keyboard that is active afterwards is NeverPressed, also when the
\* model selected is the one that was active and keys of it had been pressed.
C20_SwitchResets ==
  last.op = "change" =>
    /\ last.dropped # Null
    /\ \A i \in DOMAIN last.dropped[1] : last.dropped[1][i] = NeverPressed
    /\ \A i \in DOMAIN keyboard.keys :
         /\ keyboard.keys[i].state = NeverPressed
         /\ keyboard.keys[i].ref[1].className = Some(<<"key", NeverPressed>>)
    /\ getOptions[model].id = last.code
    /\ Len(keyboard.keys) = Len(getOptions[model].keyboard.keyboard[1].keys)

\* The model that was active was selected again while it had a key Down and
\* a key Pressed
C20_Witness ==
  /\ last.op = "change" /\ last.from = model
  /\ last.prior = KeyState
  /\ last.dropped # Null /\ Len(last.dropped[1]) = Len(keyboard.keys)
  /\ AllStates(keyboard) = {NeverPressed}

----------------------------------------------------------------------------
\* The model switch, statement by statement

\* What placement fixes of every key of kb, in the order of kb.keys
Layout(kb) ==
  [i \in DOMAIN kb.keys |->
     [displayChar |-> kb.keys[i].displayChar,
      shiftDisplayChar |-> kb.keys[i].shiftDisplayChar,
      keyCode |-> kb.keys[i].keyCode,
      size |-> kb.keys[i].size,
      position |-> kb.keys[i].position,
      zIndex |-> kb.keys[i].zIndex]]

\* Mutant: handlers are dispatched while the change listener is still running
Idle_Always == TRUE

\* A handler is dispatched only when no handler is running: the change
\* listener and createKeyboard run to completion, having no await or callback
Idle == switching.pc = "idle"

\* The models selected in the dropdown: the first option, and the derived layout
SwitchModels == {1, 4}

\* The change listener up to and including this.keyboard.clear()
SwitchClear ==
  \E m \in SwitchModels :
    /\ Idle
    /\ model' = m
    /\ keyboard' = clear(keyboard)
    /\ switching' = [switching EXCEPT !.pc = "cleared"]
    /\ error' = "none"
    /\ last' = [op |-> "change:clear", code |-> getOptions[m].id,
                prior |-> AllStates(keyboard), rendered |-> Indices(keyboard)]
    /\ latest' = NoEvents
    /\ UNCHANGED <<inherited, lastWidth, transform, currentRow, logged, calls, heap>>

\* this.keyboard = fnKeyboard(): the factory runs, and the keyboard it
\* returns replaces the one cleared; if it throws the listener ends
SwitchAssign ==
  LET made == getOptions[model].keyboard IN
  /\ switching.pc = "cleared"
  /\ IF made.error = "none"
     THEN /\ keyboard' = made.keyboard[1]
          /\ switching' = [pc |-> "assigned", previous |-> Some(keyboard)]
     ELSE /\ keyboard' = keyboard
          /\ switching' = [switching EXCEPT !.pc = "idle"]
  /\ error' = made.error
  /\ last' = [op |-> "change:assign", code |-> getOptions[model].id,
              prior |-> AllStates(keyboard), rendered |-> <<>>]
  /\ UNCHANGED <<model, inherited, lastWidth, transform, latest, currentRow, logged, calls, heap>>

\* this.keyboard.render(), which ends the change listener
SwitchRender ==
  /\ switching.pc = "assigned"
  /\ keyboard' = render(keyboard)
  /\ switching' = [switching EXCEPT !.pc = "idle"]
  /\ last' = [op |-> "change", code |-> getOptions[model].id,
              prior |-> AllStates(switching.previous[1]), rendered |-> Indices(keyboard),
              from |-> model, dropped |-> Some(KeyStates(switching.previous[1]))]
  /\ UNCHANGED <<model, inherited, lastWidth, transform, error, latest, currentRow, logged,
                 calls, heap>>

SwitchNext ==
  \/ SwitchClear
  \/ SwitchAssign
  \/ SwitchRender
  \/ (Idle /\ DocumentOnKeyDown)
  \/ (Idle /\ DocumentOnKeyUp)
  \/ (Idle /\ BtnClearOnClick)
  \/ (Idle /\ ScaleToParentTick)

\* The program with the change listener taken one statement at a time
SpecSwitch == Init /\ [][SwitchNext]_vars

\* C21: a key event is handled only when no model switch is under way, by a
\* keyboard that is one the catalog builds, whole and indexed: every key of
\* the selected model's layout is in it and in its index.  It leaves the
\* keyboard last replaced as it was, every key of it NeverPressed.  And a
\* switch taken statement by statement ends as createKeyboard does.
C21_SwitchAtomic ==
  [][ /\ KeyEvent(last'.op) =>
           /\ switching.pc = "idle" /\ switching'.pc = "idle"
           /\ Layout(keyboard) = Layout(getOptions[model].keyboard.keyboard[1])
           /\ keyboard.map = getOptions[model].keyboard.keyboard[1].map
           /\ \A i \in DOMAIN keyboard.keys : keyboard.keys[i].ref[1].parent
           /\ switching'.previous = switching.previous
           /\ switching.previous # Null => AllStates(switching.previous[1]) = {NeverPressed}
      /\ last'.op = "change" =>
           keyboard' = createKeyboard(switching.previous, getOptions[model].keyboard).keyboard[1]
    ]_vars

\* After a switch from the Generic layout to the derived layout, a key-down
\* for KeyQ was handled by the new keyboard; the one replaced is as it was cleared
C21_Witness ==
  /\ switching.pc = "idle" /\ switching.previous # Null
  /\ Len(switching.previous[1].keys) = 107 /\ Len(keyboard.keys) = 103
  /\ AllStates(switching.previous[1]) = {NeverPressed}
  /\ last.op = "keydown" /\ last.code = "KeyQ" /\ StatesOf(keyboard, "KeyQ") = {Down}

\* The state each key of kb has when ev gives, per identifier, the kind of
\* the last key event that carried it
StatesFrom(kb, ev) ==
  [i \in DOMAIN kb.keys |->
     LET c == kb.keys[i].keyCode
         e == IF c \in DOMAIN ev THEN ev[c] ELSE "none"
     IN CASE e = "down" -> Down [] e = "up" -> Pressed [] OTHER -> NeverPressed]

\* C22: a rescale tick leaves the keyboard as it is (every key's state,
\* identifier, label, size and position, the index, and every key's element),
\* as well as the model selected and the record of the events so far; and
\* after every handler the layout is the selected model's and the key states
\* are those the events so far give, so neither depends on the ticks between.
C22_TickInert ==
  [][ /\ last'.op = "tick" =>
           /\ keyboard' = keyboard
           /\ model' = model /\ latest' = latest /\ inherited' = inherited
      /\ Layout(keyboard') = Layout(getOptions[model'].keyboard.keyboard[1])
      /\ KeyStates(keyboard') = StatesFrom(keyboard', latest') ]_vars

\* A tick rescaled the keyboard while KeyQ was Down and KeyW Pressed
C22_Witness ==
  /\ last.op = "tick" /\ lastWidth = Some(800) /\ transform = Some(<<800, 1000>>)
  /\ StatesOf(keyboard, "KeyQ") = {Down} /\ StatesOf(keyboard, "KeyW") = {Pressed}
  /\ latest["KeyQ"] = "down" /\ latest["KeyW"] = "up"

\* The fields of a keyboard other than its keys
Beside(kb) == [f \in (DOMAIN kb) \ {"keys"} |-> kb[f]]

\* C23: onKeyDown and onKeyUp (which render one key) and clear (which renders
\* every key) leave every key's label, shift label, keyCode, size, position
\* and stack order, the number and order of the keys, and the index
\* unchanged; and render leaves the keyboard its factory returned with the
\* layout and the index the factory gave it.
C23_OnlyStateChanges ==
  [][ /\ last'.op \in {"keydown", "keyup", "clear"} =>
           /\ Layout(keyboard') = Layout(keyboard)
           /\ Beside(keyboard') = Beside(keyboard)
      /\ last'.op = "change" =>
           /\ Layout(keyboard') = Layout(getOptions[model'].keyboard.keyboard[1])
           /\ Beside(keyboard') = Beside(getOptions[model'].keyboard.keyboard[1]) ]_vars

\* On the Generic layout, whose Enter key has a height and a stack order of
\* its own, clear() reset keys that were Down and Pressed
C23_Witness ==
  /\ getOptions[model].id = "cheap"
  /\ last.op = "clear" /\ last.prior = KeyState
  /\ \E i \in KeysOf(keyboard, "Enter") :
       keyboard.keys[i].size.height = Some(40) /\ keyboard.keys[i].zIndex = Some("0")

ClassOf(s) == Some(<<"key", s>>)

\* C25: once the keyboard is rendered, after every key-down, key-up, clear and
\* model change the element of every key is a child of the root element and
\* its class names the key's current state.
C25_ViewTracksState ==
  \A i \in DOMAIN keyboard.keys :
    /\ keyboard.keys[i].ref # Null
    /\ keyboard.keys[i].ref[1].parent
    /\ keyboard.keys[i].ref[1].className = ClassOf(keyboard.keys[i].state)

\* KeyQ went down and up and KeyW is held: elements of all three classes are shown
C25_Witness ==
  /\ last.op = "keyup" /\ last.code = "KeyQ" /\ last.prior = {Down}
  /\ \E i \in KeysOf(keyboard, "KeyQ") : keyboard.keys[i].ref[1].className = ClassOf(Pressed)
  /\ \E i \in KeysOf(keyboard, "KeyW") : keyboard.keys[i].ref[1].className = ClassOf(Down)
  /\ \E i \in KeysOf(keyboard, "ContextMenu") :
       keyboard.keys[i].ref[1].className = ClassOf(NeverPressed)

\* C27: every key of every keyboard a catalog factory returns is
\* NeverPressed, so is every key of the active keyboard when it has just been
\* created, and in every state each key's state is one of NeverPressed, Down
\* and Pressed.
C27_StartsNeverPressed ==
  /\ \A m \in DOMAIN getOptions :
       AllStates(getOptions[m].keyboard.keyboard[1]) = {NeverPressed}
  /\ last.op \in {"init", "change"} => AllStates(keyboard) = {NeverPressed}
  /\ AllStates(keyboard) \subseteq KeyState

\* The HP layout has just replaced a keyboard of another model that had keys
\* in all three states
C27_Witness ==
  /\ last.op = "change" /\ last.code = "hp-lowend" /\ last.prior = KeyState
  /\ last.from # model
  /\ AllStates(keyboard) = {NeverPressed}

\* C28: the Logitech 2 keyboard has as many keys as the Logitech keyboard, in
\* the same order, with the same size, position, shift label and stack order;
\* every key but one has the same keyCode and label in both, and that one key,
\* the only ContextMenu key of Logitech, labelled Menu, has keyCode Fn and
\* label Fn in Logitech 2.  The active keyboard stands for its model's
\* factory result whenever one of the two models is selected.
C28_DerivedEqualsBase ==
  LET id == getOptions[model].id
      base == IF id = "logitech" THEN keyboard ELSE getWindowsLogitechKeyboard.keyboard[1]
      derived == IF id = "logitech2" THEN keyboard ELSE getWindowsLogitech2Keyboard.keyboard[1]
  IN /\ Len(derived.keys) = Len(base.keys)
     /\ KeysOf(base, "ContextMenu") = {Relabelled}
     /\ \A i \in DOMAIN base.keys :
          /\ derived.keys[i].size = base.keys[i].size
          /\ derived.keys[i].position = base.keys[i].position
          /\ derived.keys[i].shiftDisplayChar = base.keys[i].shiftDisplayChar
          /\ derived.keys[i].zIndex = base.keys[i].zIndex
          /\ IF i = Relabelled
             THEN /\ base.keys[i].keyCode = "ContextMenu" /\ base.keys[i].displayChar = "Menu"
                  /\ derived.keys[i].keyCode = "Fn" /\ derived.keys[i].displayChar = "Fn"
             ELSE /\ derived.keys[i].keyCode = base.keys[i].keyCode
                  /\ derived.keys[i].displayChar = base.keys[i].displayChar

\* Logitech 2 is the active keyboard and its relabelled key is held down
C28_Witness ==
  /\ getOptions[model].id = "logitech2"
  /\ keyboard.keys[Relabelled].keyCode = "Fn" /\ keyboard.keys[Relabelled].state = Down
  /\ last.op = "keydown" /\ last.code = "Fn"
  /\ Len(keyboard.keys) = Len(getWindowsLogitechKeyboard.keyboard[1].keys)

\* Heights on both sides of the short-key threshold, and no height
Heights == {Null, Some(-5), Some(0), Some(9), Some(10), Some(11), Some(20), Some(40)}

\* The two contents renderKey gives a key's element
PrimaryOnly(key) == Some(<<key.displayChar>>)
ShiftAbove(key) ==
  Some(<<(IF key.shiftDisplayChar # "" THEN key.shiftDisplayChar ELSE ""), "<br>", key.displayChar>>)

\* C30: the element of every key shows the primary label alone if the key's
\* height is set and at most 10, and the shift label, a line break and the
\* primary label otherwise; and renderKey does the same for every key
\* whatever height it is given.
C30_ShortKeyThreshold ==
  \A i \in DOMAIN keyboard.keys :
    LET key == keyboard.keys[i] IN
    /\ key.ref[1].innerHTML =
         IF key.size.height # Null /\ key.size.height[1] <= 10
         THEN PrimaryOnly(key) ELSE ShiftAbove(key)
    /\ \A h \in Heights :
         renderKey([key EXCEPT !.size.height = h]).ref[1].innerHTML =
           IF h # Null /\ h[1] <= 10 THEN PrimaryOnly(key) ELSE ShiftAbove(key)

\* The MacBook Pro layout is shown: its arrow keys, of height exactly 10, show
\* one label, and its other keys, of default height, show two lines
C30_Witness ==
  /\ getOptions[model].id = "macbookpro"
  /\ last.op = "keyup"
  /\ \E i \in KeysOf(keyboard, "ArrowUp") :
       /\ keyboard.keys[i].size.height = Some(10)
       /\ keyboard.keys[i].ref[1].innerHTML = PrimaryOnly(keyboard.keys[i])
  /\ \E i \in KeysOf(keyboard, "KeyQ") :
       /\ keyboard.keys[i].size.height = Null
       /\ keyboard.keys[i].ref[1].innerHTML = ShiftAbove(keyboard.keys[i])

-----------------------------------------------------------------------------
\* A factory body that assigns heights to keys it placed, and the keyboard it
\* returns shown by a KeyboardTester

\* The heights the catalog's factories assign: 10 to the MacBook Pro arrow
\* keys, twice the default key height to Enter and numpad keys
ExplicitHeights == {10, 40}

\* Whether the element of every key of kb is a child of the root element
Shown(kb) == \A i \in DOMAIN kb.keys : kb.keys[i].ref[1].parent

\* key.size.height = height, key being a key an earlier addKey returned
BuildSetHeight ==
  \E i \in DOMAIN keyboard.keys, height \in ExplicitHeights :
    /\ error = "none" /\ ~calls.returned
    /\ keyboard.keys[i].size.height = Null
    /\ keyboard' = [keyboard EXCEPT !.keys[i].size.height = Some(height)]
    /\ last' = [op |-> "setHeight", key |-> i, height |-> height]
    /\ UNCHANGED <<switching, heap, model, inherited, lastWidth, transform, error, latest,
                   currentRow, logged, calls>>

\* tester.createKeyboard(factory) with the factory that returned keyboard:
\* the keyboard is rendered
HeightsCreate ==
  /\ error = "none" /\ calls.returned /\ ~Shown(keyboard)
  /\ keyboard' = createKeyboard(Null, Built(keyboard)).keyboard[1]
  /\ last' = [op |-> "create"]
  /\ UNCHANGED <<switching, heap, model, inherited, lastWidth, transform, error, latest,
                 currentRow, logged, calls>>

HeightsNext ==
  \/ BuildNextRow
  \/ BuildAddKey
  \/ BuildAddGap
  \/ BuildSetHeight
  \/ BuildReturn
  \/ BuildRemap
  \/ HeightsCreate
  \/ (calls.returned /\ Shown(keyboard) /\ DocumentOnKeyDown)
  \/ (calls.returned /\ Shown(keyboard) /\ DocumentOnKeyUp)
  \/ (calls.returned /\ Shown(keyboard) /\ BtnClearOnClick)

SpecHeights == BuildInit /\ [][HeightsNext]_vars

\* C29: addKey leaves the height of the key it adds null, whatever its
\* arguments, and no step other than the caller's assignment of a height
\* (no addKey, nextRow, addGap, remap, render, key event or clear) changes the
\* height of any key placed before it.
C29_HeightKept ==
  [][ /\ last'.op = "addKey" =>
           /\ Len(keyboard'.keys) = Len(keyboard.keys) + 1
           /\ keyboard'.keys[Len(keyboard'.keys)].size.height = Null
      /\ last'.op # "setHeight" =>
           \A i \in DOMAIN keyboard.keys :
             keyboard'.keys[i].size.height = keyboard.keys[i].size.height
      /\ last'.op = "setHeight" =>
           \A i \in DOMAIN keyboard.keys :
             i # last'.key => keyboard'.keys[i].size.height = keyboard.keys[i].size.height ]_vars

\* A key given height 40 was followed by a new row and a key of explicit
\* width, whose height is null; the keyboard was returned and shown, and the
\* first key was pressed
C29_Witness ==
  /\ Len(keyboard.keys) = 2
  /\ keyboard.keys[1].size.height = Some(40) /\ keyboard.keys[1].state = Down
  /\ keyboard.keys[2].size = [width |-> Some(35), height |-> Null]
  /\ keyboard.keys[2].position.y > keyboard.keys[1].position.y
  /\ keyboard.keys[1].ref[1].height = Some(40)
  /\ last.op = "keydown"

-----------------------------------------------------------------------------
\* The catalog called over and over, with the objects its calls allocate.
\* Each new-expression takes the next address of the heap.

\* The most calls of getOptions, and the most factory invocations
MaxListings == 2
MaxInvocations == 4

\* The ids of the models getOptions returns, in order
OptionIds == [i \in DOMAIN getOptions |-> getOptions[i].id]

\* getOptions(): an array literal of five new KeyboardModel objects, each
\* holding the static method it was constructed with
ListOptions(h) ==
  [h EXCEPT !.allocated = @ + 1 + Len(getOptions),
            !.options = Append(@, [array |-> h.allocated + 1,
                                   models |-> [i \in DOMAIN getOptions |-> h.allocated + 1 + i],
                                   ids |-> OptionIds])]

\* Mutant: a factory keeps the keyboard it built and returns it again when
\* it is invoked again
Invoke_Cached(h, m) ==
  LET n == Len(getOptions[m].keyboard.keyboard[1].keys)
      before == {k \in DOMAIN h.returned : h.returned[k].model = m}
  IN IF before # {}
     THEN [h EXCEPT !.returned = Append(@, h.returned[CHOOSE k \in before : TRUE])]
     ELSE [h EXCEPT !.allocated = @ + 1 + n,
                    !.returned = Append(@, [model |-> m,
                                            keyboard |-> h.allocated + 1,
                                            keys |-> [i \in 1..n |-> h.allocated + 1 + i]])]

\* models[m].keyboard(): the factory body runs new Keyboard() once and, in
\* addKey, new KeyShape() once per key, and returns that keyboard.  The derived
\* factory returns the keyboard its own call of the Logitech factory built.
Invoke(h, m) ==
  LET n == Len(getOptions[m].keyboard.keyboard[1].keys) IN
  [h EXCEPT !.allocated = @ + 1 + n,
            !.returned = Append(@, [model |-> m,
                                    keyboard |-> h.allocated + 1,
                                    keys |-> [i \in 1..n |-> h.allocated + 1 + i]])]

\* new KeyboardTester(), as Init, with the objects that #initDOM's call of
\* getOptions and the first createKeyboard allocated
CatalogInit ==
  /\ model = 1
  /\ keyboard = createKeyboard(Null, getOptions[1].keyboard).keyboard[1]
  /\ inherited = [n \in ProtoNames |-> Null]
  /\ lastWidth = Null
  /\ transform = Null
  /\ error = "none"
  /\ last = [op |-> "init", code |-> "", prior |-> {}, rendered |-> Indices(keyboard)]
  /\ latest = NoEvents
  /\ currentRow = Null
  /\ logged = <<>>
  /\ calls = [gaps |-> <<>>, advances |-> <<>>, made |-> 0, returned |-> TRUE]
  /\ switching = NotSwitching
  /\ heap = Invoke(ListOptions(EmptyHeap), 1)

\* KeyboardDefinitions.getOptions(), called once more
CatalogGetOptions ==
  /\ Len(heap.options) < MaxListings
  /\ heap' = ListOptions(heap)
  /\ last' = [op |-> "getOptions", code |-> "", prior |-> {}, rendered |-> <<>>]
  /\ UNCHANGED <<keyboard, model, inherited, lastWidth, transform, error, latest,
                 currentRow, logged, calls, switching>>

\* The change listener of $ddlModel, with the objects the factory allocates
CatalogChange ==
  \E m \in DOMAIN getOptions :
    LET res == createKeyboard(Some(keyboard), getOptions[m].keyboard) IN
    /\ Len(heap.returned) < MaxInvocations
    /\ heap' = Invoke(heap, m)
    /\ model' = m
    /\ keyboard' = res.keyboard[1]
    /\ error' = res.error
    /\ last' = [op |-> "change", code |-> getOptions[m].id, prior |-> AllStates(keyboard),
                rendered |-> Indices(keyboard'), from |-> model,
                dropped |-> IF res.previous = Null THEN Null
                            ELSE Some(KeyStates(res.previous[1]))]
    /\ latest' = NoEvents
    /\ UNCHANGED <<inherited, lastWidth, transform, currentRow, logged, calls, switching>>

CatalogNext ==
  \/ CatalogGetOptions
  \/ CatalogChange

SpecCatalog == CatalogInit /\ [][CatalogNext]_vars

\* The objects of the n-th keyboard returned: the keyboard and its keys
ObjectsOf(h, n) ==
  {h.returned[n].keyboard} \cup {h.returned[n].keys[i] : i \in DOMAIN h.returned[n].keys}

\* C26: every call of getOptions returned the ids cheap, hp-lowend, logitech,
\* logitech2, macbookpro in this order, no two of them equal; every factory
\* invocation returned a keyboard with one key object per key of its layout,
\* and no keyboard or key object of one invocation is an object of another.
C26_FreshKeyboards ==
  /\ OptionIds = <<"cheap", "hp-lowend", "logitech", "logitech2", "macbookpro">>
  /\ Cardinality({OptionIds[i] : i \in DOMAIN OptionIds}) = 5
  /\ \A c \in DOMAIN heap.options : heap.options[c].ids = OptionIds
  /\ \A n \in DOMAIN heap.returned :
       LET made == getOptions[heap.returned[n].model].keyboard IN
       /\ made.error = "none"
       /\ Len(heap.returned[n].keys) = Len(made.keyboard[1].keys)
       /\ Cardinality(ObjectsOf(heap, n)) = 1 + Len(made.keyboard[1].keys)
  /\ \A n1 \in DOMAIN heap.returned, n2 \in DOMAIN heap.returned :
       n1 # n2 => ObjectsOf(heap, n1) \cap ObjectsOf(heap, n2) = {}
  /\ Layout(keyboard) =
       Layout(getOptions[heap.returned[Len(heap.returned)].model].keyboard.keyboard[1])

\* getOptions was called twice, and the Logitech factory was invoked twice
\* with an invocation of the derived Logitech 2 factory in between
C26_Witness ==
  /\ Len(heap.options) = 2
  /\ Len(heap.returned) = 4
  /\ heap.returned[2].model = 3 /\ heap.returned[3].model = 4 /\ heap.returned[4].model = 3
  /\ getOptions[model].id = "logitech"

-----------------------------------------------------------------------------
\* Rendering: a keyboard of two keys, the first with any height and any
\* stack-order override, rendered, rendered again, and sent key events

\* The values a factory leaves or assigns as a key's zIndex
ZIndexes == {Null, Some("0"), Some("5")}

\* A factory body of one row: a key placed by any of the addKey calls, with a
\* height and a zIndex assigned to the key returned, then the key w
TwoKeys(k, height, zIndex) ==
  LET r1 == nextRow(NewKeyboard, 0)
      r2 == RowAddKey(r1.keyboard, r1.row, k.displayChar, k.keyCode, k.width, k.shiftChar)
      r3 == RowAddKey(r2.keyboard, r2.row, "w", "KeyW", Some(-1), Null)
  IN [r3.keyboard EXCEPT !.keys[1].size.height = height, !.keys[1].zIndex = zIndex]

\* The factory has returned the keyboard; nothing is rendered yet
RenderInit ==
  /\ \E k \in KeyCalls, height \in Heights, zIndex \in ZIndexes :
       keyboard = TwoKeys(k, height, zIndex)
  /\ currentRow = Null
  /\ logged = <<>>
  /\ calls = [gaps |-> <<>>, advances |-> <<>>, made |-> 3, returned |-> TRUE]
  /\ switching = NotSwitching
  /\ heap = EmptyHeap
  /\ error = "none"
  /\ last = [op |-> "return"]
  /\ model = 0
  /\ inherited = [n \in ProtoNames |-> Null]
  /\ lastWidth = Null
  /\ transform = Null
  /\ latest = NoEvents

\* keyboard.render(), called again on the keyboard shown
RenderAgain ==
  /\ Shown(keyboard)
  /\ keyboard' = render(keyboard)
  /\ last' = [op |-> "render", prior |-> KeyStates(keyboard)]
  /\ UNCHANGED <<switching, heap, model, inherited, lastWidth, transform, error, latest,
                 currentRow, logged, calls>>

\* keyboard.renderKey(key), called again for one key of the keyboard shown
RenderKeyAgain ==
  \E i \in DOMAIN keyboard.keys :
    /\ Shown(keyboard)
    /\ keyboard' = [keyboard EXCEPT !.keys[i] = renderKey(@)]
    /\ last' = [op |-> "renderKey", key |-> i, prior |-> KeyStates(keyboard)]
    /\ UNCHANGED <<switching, heap, model, inherited, lastWidth, transform, error, latest,
                   currentRow, logged, calls>>

RenderNext ==
  \/ HeightsCreate
  \/ RenderAgain
  \/ RenderKeyAgain
  \/ (Shown(keyboard) /\ DocumentOnKeyDown)
  \/ (Shown(keyboard) /\ DocumentOnKeyUp)
  \/ (Shown(keyboard) /\ BtnClearOnClick)

SpecRender == RenderInit /\ [][RenderNext]_vars

-----------------------------------------------------------------------------
\* new KeyboardTester(), statement by statement.  The constructor runs to
\* completion: a callback it installs runs only once it has returned.

\* Whether #initDOM has run: the change listener, $btnClear.onclick and the
\* interval are installed
InitDOMDone == switching.pc # "initDOM"

\* Whether document.onkeydown and document.onkeyup are assigned, which the
\* constructor does last
KeyHandlersInstalled == switching.pc = "idle"

\* The constructor is entered: the class fields hold their initial values
StartInit ==
  /\ model = 0
  /\ keyboard = Null
  /\ inherited = [n \in ProtoNames |-> Null]
  /\ lastWidth = Null
  /\ transform = Null
  /\ error = "none"
  /\ last = [op |-> "new", code |-> "", prior |-> {}, rendered |-> <<>>]
  /\ latest = NoEvents
  /\ currentRow = Null
  /\ logged = <<>>
  /\ calls = [gaps |-> <<>>, advances |-> <<>>, made |-> 0, returned |-> TRUE]
  /\ switching = [pc |-> "initDOM", previous |-> Null]
  /\ heap = EmptyHeap

\* this.#initDOM(): the dropdown is filled, its first option selected, and
\* the change listener, the Clear handler and the interval are installed
StartInitDOM ==
  /\ switching.pc = "initDOM"
  /\ model' = 1
  /\ switching' = [switching EXCEPT !.pc = "dispatch"]
  /\ last' = [op |-> "initDOM", code |-> "", prior |-> {}, rendered |-> <<>>]
  /\ UNCHANGED <<keyboard, inherited, lastWidth, transform, error, latest, currentRow,
                 logged, calls, heap>>

\* this.$ddlModel.dispatchEvent(new Event('change')): the change listener
\* runs inside the call, with this.keyboard still null
StartDispatch ==
  LET res == createKeyboard(Null, getOptions[model].keyboard) IN
  /\ switching.pc = "dispatch"
  /\ keyboard' = IF res.keyboard = Null THEN Null ELSE res.keyboard[1]
  /\ error' = res.error
  /\ switching' = [switching EXCEPT !.pc = "handlers"]
  /\ last' = [op |-> "dispatch", code |-> getOptions[model].id, prior |-> {}, rendered |-> <<>>]
  /\ UNCHANGED <<model, inherited, lastWidth, transform, latest, currentRow, logged, calls, heap>>

\* document.onkeydown = ..., document.onkeyup = ..., and the constructor returns
StartHandlers ==
  /\ switching.pc = "handlers"
  /\ switching' = NotSwitching
  /\ last' = [op |-> "init", code |-> "", prior |-> {}, rendered |-> Indices(keyboard)]
  /\ UNCHANGED <<keyboard, model, inherited, lastWidth, transform, error, latest, currentRow,
                 logged, calls, heap>>

\* A handler that dereferences this.keyboard while it is null
HandlerThrows(op) ==
  /\ keyboard = Null
  /\ error' = "TypeError"
  /\ last' = [op |-> op, code |-> "", prior |-> {}, rendered |-> <<>>]
  /\ UNCHANGED <<keyboard, model, inherited, lastWidth, transform, latest, currentRow,
                 logged, calls, switching, heap>>

\* The change listener run by the user's selection: this.keyboard may be null
StartChange ==
  \/ /\ keyboard # Null
     /\ DdlModelOnChange
  \/ /\ keyboard = Null
     /\ \E m \in DOMAIN getOptions :
          /\ model' = m
          /\ keyboard' = createKeyboard(Null, getOptions[m].keyboard).keyboard[1]
          /\ last' = [op |-> "change", code |-> getOptions[m].id, prior |-> {},
                      rendered |-> Indices(keyboard'), from |-> model, dropped |-> Null]
          /\ UNCHANGED <<inherited, lastWidth, transform, error, latest, currentRow,
                         logged, calls, switching, heap>>

StartNext ==
  \/ StartInitDOM
  \/ StartDispatch
  \/ StartHandlers
  \/ (Idle /\ InitDOMDone /\ (HandlerThrows("tick") \/ (keyboard # Null /\ ScaleToParentTick)))
  \/ (Idle /\ InitDOMDone /\ (HandlerThrows("clear") \/ (keyboard # Null /\ BtnClearOnClick)))
  \/ (Idle /\ InitDOMDone /\ StartChange)
  \/ (Idle /\ KeyHandlersInstalled /\ DocumentOnKeyDown)
  \/ (Idle /\ KeyHandlersInstalled /\ DocumentOnKeyUp)

SpecStart == StartInit /\ [][StartNext]_vars

\* C32: whenever a key-down, key-up, Clear or tick handler runs,
\* this.keyboard is a keyboard that has been built and rendered and the
\* handler does not fail; and the first keyboard is in place when the
\* constructor assigns the key handlers.
C32_KeyboardExists ==
  [][ /\ last'.op \in {"keydown", "keyup", "clear", "tick"} =>
           /\ keyboard # Null
           /\ Shown(keyboard) /\ Len(keyboard.keys) > 0
           /\ error' = "none"
      /\ switching'.pc \in {"handlers", "idle"} =>
           /\ keyboard' # Null
           /\ Shown(keyboard') /\ Len(keyboard'.keys) > 0 ]_vars

\* The constructor has returned and the first callback to run is a tick
C32_Witness ==
  /\ switching.pc = "idle"
  /\ last.op = "tick" /\ lastWidth # Null
  /\ getOptions[model].id = "cheap" /\ keyboard # Null
  /\ AllStates(keyboard) = {NeverPressed}
  /\ latest = NoEvents

-----------------------------------------------------------------------------
\* A keyboard built on one row, customized by its caller and shown: keys may
\* share a keyCode, and a keyCode may be changed with or without a remap()

UseNext ==
  \/ (currentRow = Null /\ BuildNextRow)
  \/ BuildAddKey
  \/ BuildReturn
  \/ BuildSetKeyCode
  \/ BuildRemap
  \/ HeightsCreate
  \/ (calls.returned /\ Shown(keyboard) /\ DocumentOnKeyDown)
  \/ (calls.returned /\ Shown(keyboard) /\ DocumentOnKeyUp)
  \/ (calls.returned /\ Shown(keyboard) /\ BtnClearOnClick)

SpecUse == BuildInit /\ [][UseNext]_vars

\* The identifiers the index holds for a key that no longer carries them
StaleIds(kb) == {c \in DOMAIN kb.map : kb.keys[kb.map[c]].keyCode # c}

\* The state a key event assigns
Assigned(op) == IF op = "keydown" THEN Down ELSE Pressed

\* C33: changing a placed key's keyCode leaves the index as it was, holding
\* the key under the old identifier and nothing under the new one, and so does
\* every step but remap(); while that lasts a key event for the old identifier
\* sets that key's state and a key event for an identifier the index does not
\* hold, the key's new one included, changes no state; after remap() the
\* index holds no key under an identifier it does not carry and every key's
\* identifier resolves.
C33_StaleWindow ==
  [][ /\ last'.op = "setKeyCode" =>
           /\ keyboard'.map = keyboard.map
           /\ last'.code \in StaleIds(keyboard')
           /\ keyboard'.map[last'.code] = last'.key
           /\ keyboard'.keys[last'.key].keyCode \notin DOMAIN keyboard'.map
      /\ last'.op \in {"create", "keydown", "keyup", "clear"} =>
           /\ keyboard'.map = keyboard.map
           /\ StaleIds(keyboard') = StaleIds(keyboard)
      /\ (KeyEvent(last'.op) /\ last'.code \in StaleIds(keyboard)) =>
           keyboard'.keys[keyboard.map[last'.code]].state = Assigned(last'.op)
      /\ (KeyEvent(last'.op) /\ last'.code \notin DOMAIN keyboard.map) =>
           /\ KeyStates(keyboard') = KeyStates(keyboard)
           /\ error' = "none"
      /\ last'.op = "remap" =>
           /\ StaleIds(keyboard') = {}
           /\ KeyCodes(keyboard') = DOMAIN keyboard'.map
           /\ \A c \in StaleIds(keyboard) :
                c \notin KeyCodes(keyboard) => c \notin DOMAIN keyboard'.map ]_vars

\* The ContextMenu key was re-identified as Fn and shown without a remap():
\* a key-up for Fn was ignored, and a key-down for ContextMenu has put the key
\* that carries Fn Down
C33_Witness ==
  /\ last.op = "keydown" /\ last.code = "ContextMenu"
  /\ latest["Fn"] = "up"
  /\ "Fn" \notin DOMAIN keyboard.map
  /\ "ContextMenu" \in StaleIds(keyboard)
  /\ keyboard.keys[keyboard.map["ContextMenu"]].keyCode = "Fn"
  /\ keyboard.keys[keyboard.map["ContextMenu"]].state = Down

\* The keys of kb that a later key shares its keyCode with
Shadowed(kb) ==
  {i \in DOMAIN kb.keys : \E j \in DOMAIN kb.keys : j > i /\ kb.keys[j].keyCode = kb.keys[i].keyCode}

\* The last added of the keys of kb that carry keyCode
LastOf(kb, keyCode) ==
  CHOOSE i \in KeysOf(kb, keyCode) : \A j \in KeysOf(kb, keyCode) : j <= i

\* The identifiers that several keys of kb carry
Shared(kb) == {c \in KeyCodes(kb) : Cardinality(KeysOf(kb, c)) > 1}

\* C34: an addKey with a keyCode that a placed key carries adds a key and
\* keeps the earlier one; an identifier that several keys carry resolves to
\* the last added of them, after addKey and after remap() alike; a key event
\* for it sets the state of that key and of no other; a key that a later key
\* shares its keyCode with is NeverPressed in every state; and clear() leaves
\* all of them NeverPressed.
C34_LastAddedWins ==
  [][ /\ (last'.op = "addKey" /\ last'.code \in KeyCodes(keyboard)) =>
           /\ Len(keyboard'.keys) = Len(keyboard.keys) + 1
           /\ KeysOf(keyboard', last'.code) = KeysOf(keyboard, last'.code) \cup {Len(keyboard'.keys)}
      /\ \A c \in Shared(keyboard') \ StaleIds(keyboard') :
           /\ c \in DOMAIN keyboard'.map
           /\ keyboard'.map[c] = LastOf(keyboard', c)
      /\ (KeyEvent(last'.op) /\ last'.code \in Shared(keyboard) \ StaleIds(keyboard)) =>
           /\ keyboard'.keys[LastOf(keyboard, last'.code)].state = Assigned(last'.op)
           /\ \A i \in DOMAIN keyboard.keys :
                i # LastOf(keyboard, last'.code) =>
                  keyboard'.keys[i].state = keyboard.keys[i].state
      /\ \A i \in Shadowed(keyboard') : keyboard'.keys[i].state = NeverPressed
      /\ last'.op = "clear" =>
           /\ Len(keyboard'.keys) = Len(keyboard.keys)
           /\ AllStates(keyboard') \subseteq {NeverPressed} ]_vars

\* Three keys were added as KeyQ and the keyboard was shown:
\* after a key-down and a key-up for KeyQ the last added is Pressed and the
\* two before it are NeverPressed
C34_Witness ==
  /\ KeysOf(keyboard, "KeyQ") = {1, 2, 3}
  /\ last.op = "keyup" /\ last.code = "KeyQ" /\ last.prior = {NeverPressed, Down}
  /\ KeyStates(keyboard) = <<NeverPressed, NeverPressed, Pressed>>
  /\ keyboard.map["KeyQ"] = 3

-----------------------------------------------------------------------------
\* The layout builder with its geometry objects held by reference.  objects
\* is the heap of IPosition and ISize objects, an address being a position in
\* it; the keyboard, its rows and its keys hold addresses.  The object literals
\* of class fields that a constructor replaces at once are left out.

\* The most builder calls and assignments to the geometry of placed keys
MaxGeometryCalls == 5

\* What the callers add to a placed key's position.y
KeyShifts == {10}

\* new-expression or object literal: obj takes the next address
AllocAt(h, obj) == [h EXCEPT !.allocated = @ + 1, !.objects = Append(@, obj)]

\* Mutant: deepCopy hands back the object it was given
deepCopyAt_Shares(h, a) == [heap |-> h, ref |-> a]

\* deepCopy(obj) of the object at address a: a new object with obj's fields,
\* which hold numbers and null only
deepCopyAt(h, a) == [heap |-> AllocAt(h, deepCopy(h.objects[a])), ref |-> h.allocated + 1]

\* new Keyboard(): startPosition and keySize from their literals, then
\* nextRowPosition = deepCopy(this.startPosition)
NewKeyboardAt ==
  LET h0 == [allocated |-> 0, objects |-> <<>>, keyboard |-> Null, rows |-> <<>>,
             keys |-> <<>>, made |-> 0]
      h1 == AllocAt(h0, [x |-> 10, y |-> 10])
      h2 == AllocAt(h1, [width |-> Some(20), height |-> Some(20)])
      c == deepCopyAt(h2, 1)
  IN [c.heap EXCEPT !.keyboard = [startPosition |-> 1, keySize |-> 2, nextRowPosition |-> c.ref]]

\* Mutant: the row keeps the position object it is constructed with as its start
nextRowAt_KeepsArgument(h, gap) ==
  LET nrp == h.keyboard.nextRowPosition
      h1 == [h EXCEPT !.objects[nrp].y = @ + gap]
      c2 == deepCopyAt(h1, nrp)
      h2 == [c2.heap EXCEPT !.objects[nrp].x = c2.heap.objects[h.keyboard.startPosition].x]
      h3 == [h2 EXCEPT !.objects[nrp].y = @ + h2.objects[h.keyboard.keySize].height[1]]
  IN [h3 EXCEPT !.rows = Append(@, [position |-> nrp, nextPosition |-> c2.ref]),
                !.made = @ + 1]

\* Keyboard.nextRow(gap) with new KeyboardRow(this, this.nextRowPosition)
nextRowAt(h, gap) ==
  LET nrp == h.keyboard.nextRowPosition
      h1 == [h EXCEPT !.objects[nrp].y = @ + gap]
      c1 == deepCopyAt(h1, nrp)
      c2 == deepCopyAt(c1.heap, c1.ref)
      h2 == [c2.heap EXCEPT !.objects[nrp].x = c2.heap.objects[h.keyboard.startPosition].x]
      h3 == [h2 EXCEPT !.objects[nrp].y = @ + h2.objects[h.keyboard.keySize].height[1]]
  IN [h3 EXCEPT !.rows = Append(@, [position |-> c1.ref, nextPosition |-> c2.ref]),
                !.made = @ + 1]

\* KeyboardRow.addKey on row r: new KeyShape with its size literal,
\* key.position = deepCopy(this.nextPosition), the two assignments to key.size,
\* and the cursor moved by the width applyDefaultsTo gives
addKeyAt(h, r, width) ==
  LET h1 == AllocAt(h, [width |-> Some(20), height |-> Some(20)])
      size == h1.allocated
      c == deepCopyAt(h1, h.rows[r].nextPosition)
      h2 == [c.heap EXCEPT !.objects[size].width =
                              IF width # Null /\ width[1] > 0 THEN width ELSE Null]
      h3 == [h2 EXCEPT !.objects[size].height = Null]
      filled == applyDefaultsTo(h3.objects[size], h3.objects[h.keyboard.keySize])
  IN [h3 EXCEPT !.objects[h.rows[r].nextPosition].x = @ + filled.width[1],
                !.keys = Append(@, [position |-> c.ref, size |-> size]),
                !.made = @ + 1]

\* KeyboardRow.addGap(width) on row r
addGapAt(h, r, width) ==
  [h EXCEPT !.objects[h.rows[r].nextPosition].x = @ + width, !.made = @ + 1]

\* The row at r as the builder of values takes it
RowAt(h, r) ==
  [position |-> h.objects[h.rows[r].position],
   nextPosition |-> h.objects[h.rows[r].nextPosition]]

\* The geometry the references lead to: of every key, of every row, and of
\* the keyboard
Geometry(h) ==
  [keys |-> [i \in DOMAIN h.keys |-> [position |-> h.objects[h.keys[i].position],
                                      size |-> h.objects[h.keys[i].size]]],
   rows |-> [r \in DOMAIN h.rows |-> RowAt(h, r)],
   nextRowPosition |-> h.objects[h.keyboard.nextRowPosition],
   startPosition |-> h.objects[h.keyboard.startPosition],
   keySize |-> h.objects[h.keyboard.keySize]]

\* The addresses the keyboard, its rows and its keys hold
Held(h) ==
  {h.keyboard.nextRowPosition, h.keyboard.startPosition, h.keyboard.keySize}
    \cup {h.rows[r].position : r \in DOMAIN h.rows}
    \cup {h.rows[r].nextPosition : r \in DOMAIN h.rows}
    \cup {h.keys[i].position : i \in DOMAIN h.keys}
    \cup {h.keys[i].size : i \in DOMAIN h.keys}

\* const keyboard = new Keyboard()
GeometryInit ==
  /\ keyboard = NewKeyboard
  /\ heap = NewKeyboardAt
  /\ currentRow = Null
  /\ logged = <<>>
  /\ calls = [gaps |-> <<>>, advances |-> <<>>, made |-> 0, returned |-> FALSE]
  /\ switching = NotSwitching
  /\ error = "none"
  /\ last = [op |-> "new"]
  /\ model = 0
  /\ inherited = [n \in ProtoNames |-> Null]
  /\ lastWidth = Null
  /\ transform = Null
  /\ latest = NoEvents

\* let row = keyboard.nextRow(gap): one more row variable in scope
GeometryNextRow ==
  \E gap \in RowGaps :
    /\ heap.made < MaxGeometryCalls
    /\ heap' = nextRowAt(heap, gap)
    /\ keyboard' = nextRow(keyboard, gap).keyboard
    /\ last' = [op |-> "nextRow", gap |-> gap]
    /\ UNCHANGED <<model, inherited, lastWidth, transform, error, latest, currentRow,
                   logged, calls, switching>>

\* row.addKey(...) on any of the rows in scope
GeometryAddKey ==
  \E r \in DOMAIN heap.rows, k \in KeyCalls :
    /\ heap.made < MaxGeometryCalls
    /\ heap' = addKeyAt(heap, r, k.width)
    /\ keyboard' = RowAddKey(keyboard, RowAt(heap, r), k.displayChar, k.keyCode,
                             k.width, k.shiftChar).keyboard
    /\ last' = [op |-> "addKey", row |-> r, width |-> k.width]
    /\ UNCHANGED <<model, inherited, lastWidth, transform, error, latest, currentRow,
                   logged, calls, switching>>

\* row.addGap(width) on any of the rows in scope
GeometryAddGap ==
  \E r \in DOMAIN heap.rows, width \in GapWidths :
    /\ heap.made < MaxGeometryCalls
    /\ heap' = addGapAt(heap, r, width)
    /\ last' = [op |-> "addGap", row |-> r, width |-> width]
    /\ UNCHANGED <<keyboard, model, inherited, lastWidth, transform, error, latest,
                   currentRow, logged, calls, switching>>

\* key.size.height = height on a key that addKey returned
GeometrySetHeight ==
  \E i \in DOMAIN heap.keys, height \in ExplicitHeights :
    /\ heap.made < MaxGeometryCalls
    /\ heap' = [heap EXCEPT !.objects[heap.keys[i].size].height = Some(height),
                            !.made = @ + 1]
    /\ keyboard' = [keyboard EXCEPT !.keys[i].size.height = Some(height)]
    /\ last' = [op |-> "setHeight", key |-> i]
    /\ UNCHANGED <<model, inherited, lastWidth, transform, error, latest, currentRow,
                   logged, calls, switching>>

\* key.position.y += dy on a key that addKey returned
GeometryAddY ==
  \E i \in DOMAIN heap.keys, dy \in KeyShifts :
    /\ heap.made < MaxGeometryCalls
    /\ heap' = [heap EXCEPT !.objects[heap.keys[i].position].y = @ + dy, !.made = @ + 1]
    /\ keyboard' = [keyboard EXCEPT !.keys[i].position.y = @ + dy]
    /\ last' = [op |-> "addY", key |-> i]
    /\ UNCHANGED <<model, inherited, lastWidth, transform, error, latest, currentRow,
                   logged, calls, switching>>

\* key.position.x = from.position.x, both keys that addKey returned
GeometryCopyX ==
  \E i \in DOMAIN heap.keys, from \in DOMAIN heap.keys :
    /\ heap.made < MaxGeometryCalls
    /\ i # from
    /\ heap' = [heap EXCEPT !.objects[heap.keys[i].position].x =
                               heap.objects[heap.keys[from].position].x,
                            !.made = @ + 1]
    /\ keyboard' = [keyboard EXCEPT !.keys[i].position.x = keyboard.keys[from].position.x]
    /\ last' = [op |-> "copyX", key |-> i]
    /\ UNCHANGED <<model, inherited, lastWidth, transform, error, latest, currentRow,
                   logged, calls, switching>>

GeometryNext ==
  \/ GeometryNextRow
  \/ GeometryAddKey
  \/ GeometryAddGap
  \/ GeometrySetHeight
  \/ GeometryAddY
  \/ GeometryCopyX

SpecGeometry == GeometryInit /\ [][GeometryNext]_vars

\* C35: an assignment to the position or the size of a placed key changes
\* the position and size of no other key, no row's start or cursor, and not
\* the keyboard's vertical cursor, start margin or default key size; and no
\* two of the keyboard, its rows and its keys hold the same geometry object.
C35_NoAliasing ==
  [][ /\ last'.op \in {"setHeight", "addY", "copyX"} =>
           /\ Geometry(heap') =
                [Geometry(heap) EXCEPT !.keys[last'.key] = Geometry(heap').keys[last'.key]]
      /\ Cardinality(Held(heap')) = 3 + 2 * Len(heap'.rows) + 2 * Len(heap'.keys) ]_vars

\* Of two keys on one row the second was moved down by 10 and the first given
\* height 40: the first is where addKey put it and the row cursor is past both
C35_Witness ==
  /\ Len(heap.rows) = 1 /\ Len(heap.keys) = 2
  /\ last.op = "setHeight" /\ last.key = 1
  /\ Geometry(heap).keys[1] = [position |-> [x |-> 10, y |-> 10],
                               size |-> [width |-> Null, height |-> Some(40)]]
  /\ Geometry(heap).keys[2] = [position |-> [x |-> 30, y |-> 20],
                               size |-> [width |-> Null, height |-> Null]]
  /\ Geometry(heap).rows[1].nextPosition = [x |-> 50, y |-> 10]

\* What addKey moves the cursor by for a width argument
Advance(width) == IF width # Null /\ width[1] > 0 THEN width[1] ELSE 20

\* C36: with several rows in use in any order, addKey on a row puts the new
\* key at that row's cursor and moves that cursor by the key's width, addGap
\* on a row moves that row's cursor by the gap, and neither changes another
\* row, the start of its own row, a key placed before or the keyboard's
\* cursor; nextRow starts the new row at the keyboard's cursor and changes no
\* earlier row and no key.  The keys lie where keyboard.keys has them.
C36_RowsIndependent ==
  [][ LET before == Geometry(heap)
          after == Geometry(heap')
      IN /\ last'.op = "addKey" =>
              /\ after.rows = [before.rows EXCEPT ![last'.row].nextPosition.x =
                                                    @ + Advance(last'.width)]
              /\ Len(after.keys) = Len(before.keys) + 1
              /\ SubSeq(after.keys, 1, Len(before.keys)) = before.keys
              /\ after.keys[Len(after.keys)].position = before.rows[last'.row].nextPosition
              /\ after.nextRowPosition = before.nextRowPosition
         /\ last'.op = "addGap" =>
              after = [before EXCEPT !.rows[last'.row].nextPosition.x = @ + last'.width]
         /\ last'.op = "nextRow" =>
              /\ Len(after.rows) = Len(before.rows) + 1
              /\ SubSeq(after.rows, 1, Len(before.rows)) = before.rows
              /\ after.rows[Len(after.rows)] =
                   [position |-> [before.nextRowPosition EXCEPT !.y = @ + last'.gap],
                    nextPosition |-> [before.nextRowPosition EXCEPT !.y = @ + last'.gap]]
              /\ after.keys = before.keys
         /\ after.startPosition = before.startPosition
         /\ after.keySize = before.keySize
         /\ after.nextRowPosition = keyboard'.nextRowPosition
         /\ after.keys = [i \in DOMAIN keyboard'.keys |->
                            [position |-> keyboard'.keys[i].position,
                             size |-> keyboard'.keys[i].size]] ]_vars

\* Two rows were created before any key was added; keys were then added to
\* the first row, to the second and to the first again
C36_Witness ==
  /\ Len(heap.rows) = 2 /\ Len(heap.keys) = 3
  /\ last.op = "addKey" /\ last.row = 1
  /\ Geometry(heap).keys[1].position = [x |-> 10, y |-> 10]
  /\ Geometry(heap).keys[2].position = [x |-> 10, y |-> 30]
  /\ Geometry(heap).keys[3].position = [x |-> 30, y |-> 10]
  /\ Geometry(heap).rows[2].position = [x |-> 10, y |-> 30]
  /\ Geometry(heap).rows[2].nextPosition.x > 10

\* C37: render() and renderKey(key) change no key's state, label, identifier,
\* size, position or zIndex and not the index; called on a keyboard that is
\* shown they leave every element as it is (class, left, top, width, height,
\* stack order, content, attachment); and renderKey applied twice to any key
\* gives what it gives applied once.
C37_RenderIdempotent ==
  [][ /\ last'.op \in {"create", "render", "renderKey"} =>
           /\ KeyStates(keyboard') = KeyStates(keyboard)
           /\ Layout(keyboard') = Layout(keyboard)
           /\ Beside(keyboard') = Beside(keyboard)
      /\ last'.op \in {"render", "renderKey"} => keyboard' = keyboard
      /\ \A i \in DOMAIN keyboard'.keys :
           /\ renderKey(renderKey(keyboard'.keys[i])) = renderKey(keyboard'.keys[i])
           /\ renderKey(keyboard'.keys[i]).state = keyboard'.keys[i].state
      /\ KeyStates(render(keyboard')) = KeyStates(keyboard')
      /\ render(render(keyboard')) = render(keyboard') ]_vars

\* A keyboard with a short key of stack order 5 that is held down was
\* rendered again as a whole
C37_Witness ==
  /\ last.op = "render" /\ last.prior = <<Down, NeverPressed>>
  /\ KeyStates(keyboard) = <<Down, NeverPressed>>
  /\ keyboard.keys[1].size.height = Some(10) /\ keyboard.keys[1].zIndex = Some("5")
  /\ keyboard.keys[1].ref[1].className = ClassOf(Down)
  /\ keyboard.keys[1].ref[1].zIndex = Some("5")

\* The shift characters passed to addKey: omitted or null, empty, and given
ShiftChars == {Null, Some(""), Some("!"), Some("Q")}

\* The shift label addKey leaves on the key for a shift character: the
\* character if there is one, else the blank of KeyShape
ShiftLabel(shiftChar) == IF shiftChar # Null /\ shiftChar[1] # "" THEN shiftChar[1] ELSE " "

\* C38: the key that addKey adds carries the label and the keyCode it was
\* called with, and as shift label the shift character, if one was given and
\* is not empty, and a blank otherwise; and so for every shift character on
\* every row reached.
C38_ShiftLabel ==
  /\ last.op = "addKey" =>
       LET key == keyboard.keys[Len(keyboard.keys)] IN
       /\ key.displayChar = last.displayChar
       /\ key.keyCode = last.code
       /\ key.shiftDisplayChar = ShiftLabel(last.shiftChar)
  /\ currentRow # Null =>
       \A k \in KeyCalls, shiftChar \in ShiftChars :
         LET res == RowAddKey(keyboard, currentRow[1], k.displayChar, k.keyCode,
                              k.width, shiftChar)
             key == res.keyboard.keys[Len(res.keyboard.keys)]
         IN /\ Len(res.keyboard.keys) = Len(keyboard.keys) + 1
            /\ key.displayChar = k.displayChar
            /\ key.keyCode = k.keyCode
            /\ key.shiftDisplayChar = ShiftLabel(shiftChar)

\* The key 1 was added with the shift character ! after a key added with none
C38_Witness ==
  /\ last.op = "addKey" /\ last.shiftChar = Some("!") /\ last.displayChar = "1"
  /\ Len(keyboard.keys) = 2
  /\ keyboard.keys[1].shiftDisplayChar = " " /\ keyboard.keys[1].displayChar = "q"
  /\ keyboard.keys[2].shiftDisplayChar = "!" /\ keyboard.keys[2].keyCode = "Digit1"

====
